---------------------------- MODULE Spec2Model ----------------------------
(***************************************************************************)
(* Resilient wallet operation layer of capacitor-smart-account-demo.       *)
(*                                                                         *)
(* Session Lifecycle Controller (src/src/App.tsx): the React state of App, *)
(* the startup restore effect, runOperation and the four handlers, the     *)
(* balance effect and refreshBalance, the Operation Timeout Guard          *)
(* (withOperationTimeout) and the session snapshot kept in localStorage.   *)
(*                                                                         *)
(* Scheduling.  JavaScript runs one task at a time.  A task is a request   *)
(* (a handler invoked by the presentation layer), the settlement of an     *)
(* external call, or a timer.  The promise reactions a task triggers (the  *)
(* code after an await) run as microtasks before the next task: the model  *)
(* shows the guard's outcome in one state and runs the code awaiting it in *)
(* the next step, and no task is taken in between (NoMicrotask).  React    *)
(* commits the updates made in a task before the next task reads them, so  *)
(* a handler reads the committed state; the effect that depends on         *)
(* contractId runs at that commit (Commit).                                *)
(***************************************************************************)
EXTENDS Integers, Sequences, FiniteSets, TLC

VARIABLES
    contractId,     \* App state: connected contract id or Null
    credentialId,   \* App state: connected credential id or Null
    busy,           \* App state: Operation or Null
    restoring,      \* App state
    errorBanner,    \* App state: message or Null
    logs,           \* App state: newest first, at most MAX_LOGS entries
    transferState,  \* App state
    balance,        \* App state
    snapshot,       \* localStorage[SESSION_SNAPSHOT_KEY]: record or NoSnapshot
    lsMode,         \* "ok", or "fail" when localStorage is undefined or throws
    cur,            \* the handler run by runOperation that awaits its guard
    rst,            \* the run of the restore effect
    orphans,        \* the calls whose guard timed out before they settled
    balQ,           \* balance queries in flight, counted per kind
    nReq,           \* requests let in so far
    sawReauth,      \* history: busy has been set to "reauth"
    last,           \* history: the step taken last
    usingMemoryFallback, \* createKit: the fallback latch
    pstore,         \* the persistent key-value store behind CapacitorStorageAdapter
    mstore,         \* MemoryStorageAdapter: credentials (a Map, in insertion order), session
    pcalls,         \* persistent operations that have started and not ended
    nCalls,         \* Storage Facade calls made so far
    slast           \* history: the Storage Facade call that returned last

ctl == <<contractId, credentialId, busy, restoring, errorBanner, logs,
         transferState, balance, snapshot, balQ, sawReauth>>
app == <<lsMode, cur, rst, orphans, nReq, last>>
storage == <<usingMemoryFallback, pstore, mstore, pcalls, nCalls, slast>>
vars == <<ctl, app, storage>>

---------------------------------------------------------------------------
(* Bounds and program constants *)

MaxRequests == 1

MAX_LOGS == 14
RESTORE_TIMEOUT_MS == 10000
REAUTH_TIMEOUT_MS == 30000
CREATE_TIMEOUT_MS == 90000
CONNECT_TIMEOUT_MS == 45000
TRANSFER_TIMEOUT_MS == 60000
DISCONNECT_TIMEOUT_MS == 10000
BALANCE_TIMEOUT_MS == 15000
STROOPS_PER_XLM == 10000000

Null == "null"

Operation == {"restore", "reauth", "create", "connect", "transfer", "disconnect"}
RunOps == {"create", "connect", "transfer", "disconnect"}

Wallets == { [contractId |-> "CA", credentialId |-> "KA"],
             [contractId |-> "CB", credentialId |-> "KB"] }
ContractIds == { w.contractId : w \in Wallets }

---------------------------------------------------------------------------
(* Failure values and the Error Classifier *)

PluginCodes == {"UNKNOWN_ERROR", "CANCELLED", "DOM_ERROR", "UNSUPPORTED_ERROR",
                "TIMEOUT", "NO_CREDENTIAL", "INVALID_INPUT",
                "RPID_VALIDATION_ERROR", "PROVIDER_CONFIG_ERROR", "INTERRUPTED",
                "NO_ACTIVITY"}

\* A thrown value: its class, its message and the two code properties.
MkError(cls, message, pluginErrorCode, code) ==
    [cls |-> cls, message |-> message, pluginErrorCode |-> pluginErrorCode,
     code |-> code, operation |-> Null, timeoutMs |-> 0]

PlainError(message) == MkError("Error", message, Null, Null)

TimeoutText(operation) ==
    CASE operation = "restore" -> "restore timed out"
      [] operation = "reauth" -> "reauth timed out"
      [] operation = "create" -> "create timed out"
      [] operation = "connect" -> "connect timed out"
      [] operation = "transfer" -> "transfer timed out"
      [] OTHER -> "disconnect timed out"

OperationTimeoutError(operation, timeoutMs) ==
    [cls |-> "OperationTimeoutError", message |-> TimeoutText(operation),
     pluginErrorCode |-> Null, code |-> Null,
     operation |-> operation, timeoutMs |-> timeoutMs]

IsErrorInstance(e) ==
    e.cls \in {"Error", "OperationTimeoutError", "SmartAccountError", "PasskeyError"}
IsObject(e) == IsErrorInstance(e) \/ e.cls = "object"

\* Mutation of getErrorMessage: the message of the value is never read.
getErrorMessage_Fixed(e) == "Passkey operation failed"

getErrorMessage(e) ==
    IF IsErrorInstance(e) THEN e.message
    ELSE IF IsObject(e) /\ e.message # Null THEN e.message
    ELSE "Passkey operation failed"

getPluginErrorCode(e) ==
    IF ~IsObject(e) THEN Null
    ELSE LET value == IF e.pluginErrorCode # Null THEN e.pluginErrorCode ELSE e.code
         IN IF value \in PluginCodes THEN value ELSE Null

\* The codes of ERROR_NAME_MAP with the error names they stand for.
ERROR_NAME_MAP ==
    [c \in PluginCodes |->
        CASE c = "UNKNOWN_ERROR" -> "UnknownError"
          [] c \in {"CANCELLED", "DOM_ERROR", "NO_CREDENTIAL"} -> "NotAllowedError"
          [] c = "UNSUPPORTED_ERROR" -> "NotSupportedError"
          [] c \in {"TIMEOUT", "INTERRUPTED"} -> "AbortError"
          [] c = "INVALID_INPUT" -> "TypeError"
          [] c = "RPID_VALIDATION_ERROR" -> "SecurityError"
          [] OTHER -> "InvalidStateError"]

\* Mutation of toPluginErrorCode: any string is taken for a provider code.
toPluginErrorCode_Any(value) == value

\* A value that is no string is modelled by Null.
toPluginErrorCode(value) ==
    IF value \in DOMAIN ERROR_NAME_MAP THEN value ELSE Null

\* new PasskeyError(name, message, pluginErrorCode)
PasskeyError(name, message, pluginErrorCode) ==
    [cls |-> "PasskeyError", name |-> name, message |-> message,
     pluginErrorCode |-> pluginErrorCode, code |-> Null, operation |-> Null,
     timeoutMs |-> 0]

\* mapPluginError: the PasskeyError made of a thrown value.
mapPluginError(e) ==
    IF e.cls = "PasskeyError" THEN e
    ELSE LET pluginCode == IF toPluginErrorCode(e.code) # Null
                           THEN toPluginErrorCode(e.code) ELSE "UNKNOWN_ERROR"
         IN PasskeyError(IF pluginCode \in DOMAIN ERROR_NAME_MAP
                         THEN ERROR_NAME_MAP[pluginCode] ELSE "UnknownError",
                         IF e.cls # "string" /\ e.message # Null
                         THEN e.message ELSE "Passkey operation failed",
                         pluginCode)

\* String.prototype.includes
includes(text, pattern) ==
    \E i \in 0..(Len(text) - Len(pattern)) :
        SubSeq(text, i + 1, i + Len(pattern)) = pattern

\* Mutation of isOperationTimeoutError: a time-out that carries a provider code
\* is left to the provider codes.
isOperationTimeoutError_Uncoded(e) ==
    e.cls = "OperationTimeoutError" /\ getPluginErrorCode(e) = Null

\* error instanceof OperationTimeoutError
isOperationTimeoutError(e) == e.cls = "OperationTimeoutError"

normalizeErrorMessage(operation, e) ==
    IF isOperationTimeoutError(e) THEN
        CASE e.operation = "restore" ->
               "Session restore timed out. You can continue manually."
          [] e.operation = "reauth" ->
               "Re-authentication timed out. Try Connect Wallet again."
          [] e.operation = "create" ->
               "Wallet creation timed out. Check passkey prompt visibility and network/relayer status, then retry."
          [] e.operation = "connect" ->
               "Wallet connection timed out. Try Connect Wallet again."
          [] e.operation = "transfer" ->
               "Transfer timed out before confirmation. Check network status and retry."
          [] e.operation = "disconnect" -> "Disconnect timed out. Try again."
          [] OTHER -> e.operation \o " timed out. Please retry."
    ELSE IF getPluginErrorCode(e) # Null THEN
        LET c == getPluginErrorCode(e) IN
        CASE c \in {"CANCELLED", "DOM_ERROR", "NO_CREDENTIAL"} ->
               "Passkey request was cancelled or no credential was selected."
          [] c = "TIMEOUT" -> "Passkey request timed out. Try again."
          [] c = "RPID_VALIDATION_ERROR" ->
               "Passkey rpId validation failed. Check app rpId, associated domains, and asset links."
          [] c = "PROVIDER_CONFIG_ERROR" ->
               "Passkey provider is not configured on this device."
          [] c = "UNSUPPORTED_ERROR" ->
               "Passkeys are not supported on this device configuration."
          [] c = "INVALID_INPUT" ->
               "Invalid input for " \o operation \o ": " \o getErrorMessage(e)
          [] OTHER -> getErrorMessage(e)
    ELSE IF e.cls = "SmartAccountError" THEN
        CASE e.code = "INVALID_ADDRESS" ->
               "Invalid Stellar address. Use a valid G... or C... address."
          [] e.code = "INVALID_AMOUNT" ->
               "Invalid amount. Enter a positive numeric value."
          [] e.code = "WALLET_NOT_CONNECTED" ->
               "No wallet connected. Connect a wallet before this action."
          [] e.code = "TRANSACTION_TIMEOUT" -> "Transaction confirmation timed out."
          [] OTHER -> e.message
    ELSE IF IsErrorInstance(e) THEN
        IF includes(e.message, "contract not found on-chain")
        THEN "Wallet contract is not deployed on-chain yet. Create and deploy a wallet first."
        ELSE e.message
    ELSE "Unknown error"

\* The failures the external calls of the controller are made to produce.
CallErrors == { PlainError("boom") }

---------------------------------------------------------------------------
(* Operation Timeout Guard: withOperationTimeout *)

NoOutcome == [kind |-> "none"]
Pending == [kind |-> "pending"]
Fulfilled(v) == [kind |-> "fulfilled", value |-> v]
Rejected(e) == [kind |-> "rejected", error |-> e]

\* The promise the guard returns, and the timer it starts.
withOperationTimeout(operation, timeoutMs) ==
    [operation |-> operation, timeoutMs |-> timeoutMs, timer |-> "armed",
     inner |-> Pending, outcome |-> NoOutcome]

\* Mutant: a settlement replaces the outcome of a guard that has timed out.
GuardSettle_Overwrites(g, res) ==
    [g EXCEPT !.timer = IF @ = "armed" THEN "cleared" ELSE @,
              !.inner = res,
              !.outcome = res]

\* The then-callbacks: clearTimeout, then resolve or reject, which do nothing
\* on a promise that is settled already.
GuardSettle(g, res) ==
    [g EXCEPT !.timer = IF @ = "armed" THEN "cleared" ELSE @,
              !.inner = res,
              !.outcome = IF @.kind = "none" THEN res ELSE @]

\* The timer callback.
GuardTimeout(g) ==
    [g EXCEPT !.timer = "fired",
              !.outcome = IF @.kind = "none"
                          THEN Rejected(OperationTimeoutError(g.operation, g.timeoutMs))
                          ELSE @]

---------------------------------------------------------------------------
(* Values of the controller's state *)

NoWallet == [contractId |-> Null, credentialId |-> Null]
NoSnapshot == NoWallet
NoError == MkError("none", Null, Null, Null)

IdleTransfer == [status |-> "idle", hash |-> Null, error |-> Null,
                 amount |-> 0, recipient |-> Null]
IdleBalance == [status |-> "idle", valueXlm |-> Null, target |-> Null, error |-> Null]
LoadingBalance == [status |-> "loading", valueXlm |-> Null, target |-> Null, error |-> Null]

\* What the external calls are made to return.
\* submitResult and fundResult of a created wallet: absent, success or failure.
DeployResults == { [submit |-> "ok", fund |-> "fail"], [submit |-> "fail", fund |-> "ok"] }
CreateResults == { [contractId |-> w.contractId, credentialId |-> w.credentialId,
                    submit |-> d.submit, fund |-> d.fund] :
                    w \in Wallets, d \in DeployResults }
ConnectResults == Wallets \cup {NoWallet}
TransferResults == { [success |-> TRUE, hash |-> "h1", error |-> Null],
                     [success |-> FALSE, hash |-> Null, error |-> Null] }
Void == [void |-> TRUE]

ValuesOf(operation) ==
    CASE operation = "create" -> CreateResults
      [] operation = "transfer" -> TransferResults
      [] operation = "disconnect" -> {Void}
      [] OTHER -> ConnectResults

SettlementsOf(operation) ==
    { Fulfilled(v) : v \in ValuesOf(operation) } \cup { Rejected(e) : e \in CallErrors }

\* What a request carries: the form fields the handler reads.
UserNames == {"", "  ", "alice"}
Recipients == {"GDEST", "bad"}
Amounts == {1, 0}
\* Mutation of validateAddressOk: every recipient passes.
validateAddressOk_Any(recipient) == TRUE

validateAddressOk(recipient) == recipient = "GDEST"
validateAmountOk(amount) == amount > 0

BalanceKinds == { [target |-> c, src |-> k] :
                    c \in ContractIds, k \in {"refresh", "effect", "stale"} }
\* Failures of a balance query whose message says that the entry is missing:
\* Errors, an object with a message and a thrown string.
MissingEntryErrors ==
    { PlainError("Ledger entry not found"), PlainError("MISSING ENTRY"),
      MkError("object", "Entry does not exist", Null, Null),
      MkError("string", "Not Found", Null, Null) }

\* The failures the balance queries of the controller end in.
BalanceErrors == { PlainError("MISSING ENTRY"), PlainError("rpc failed") }

\* The two 64-bit halves of a 128-bit value are HalfBits wide here, so that
\* (hi << HalfBits) + lo stays within the integers TLC computes with.
HalfBits == 25

\* The characters of a message.
Spelling(message) == [i \in 1..Len(message) |-> SubSeq(message, i, i)]

\* String.prototype.toLowerCase
toLowerCase(text) ==
    LET upper == Spelling("ABCDEFGHIJKLMNOPQRSTUVWXYZ")
        lower == Spelling("abcdefghijklmnopqrstuvwxyz")
    IN [i \in DOMAIN text |->
          IF \E k \in DOMAIN upper : upper[k] = text[i]
          THEN lower[CHOOSE k \in DOMAIN upper : upper[k] = text[i]]
          ELSE text[i]]

getUnknownErrorMessage(error, fallback) ==
    IF IsErrorInstance(error) THEN error.message
    ELSE IF error.cls \in {"object", "string"} /\ error.message \notin {Null, ""}
    THEN error.message
    ELSE fallback

\* The six texts isMissingBalanceError looks for.
MentionsMissing(message) ==
    \/ includes(message, <<"n", "o", "t", " ", "f", "o", "u", "n", "d">>)
    \/ includes(message, <<"r", "e", "s", "o", "u", "r", "c", "e", " ", "m", "i", "s", "s", "i", "n", "g">>)
    \/ includes(message, <<"m", "i", "s", "s", "i", "n", "g", " ", "e", "n", "t", "r", "y">>)
    \/ includes(message, <<"m", "i", "s", "s", "i", "n", "g", "v", "a", "l", "u", "e">>)
    \/ includes(message, <<"e", "n", "t", "r", "y", " ", "d", "o", "e", "s", " ", "n", "o", "t", " ", "e", "x", "i", "s", "t">>)
    \/ includes(message, <<"l", "e", "d", "g", "e", "r", " ", "e", "n", "t", "r", "y">>)

\* Mutation of isMissingBalanceError: the message is matched as it is spelt.
isMissingBalanceError_CaseSensitive(error) ==
    MentionsMissing(Spelling(getUnknownErrorMessage(error, "")))

isMissingBalanceError(error) ==
    MentionsMissing(toLowerCase(Spelling(getUnknownErrorMessage(error, ""))))

\* Number / BigInt / Int64 .toString(): the decimal digits.
RECURSIVE toString(_)
toString(n) ==
    IF n < 0 THEN "-" \o toString(-n)
    ELSE IF n < 10 THEN SubSeq("0123456789", n + 1, n + 1)
    ELSE toString(n \div 10) \o toString(n % 10)

\* BigInt(text) of a decimal text.
RECURSIVE BigInt(_)
BigInt(text) ==
    LET n == Len(text)
        digit == CHOOSE d \in 0..9 : toString(d) = SubSeq(text, n, n)
    IN IF SubSeq(text, 1, 1) = "-" THEN -BigInt(SubSeq(text, 2, n))
       ELSE IF n = 1 THEN digit
       ELSE BigInt(SubSeq(text, 1, n - 1)) * 10 + digit

RECURSIVE padStart(_, _, _)
padStart(text, n, fill) ==
    IF Len(text) >= n THEN text ELSE padStart(fill \o text, n, fill)

\* replace(/0+$/, '')
RECURSIVE stripZeros(_)
stripZeros(text) ==
    IF text # "" /\ SubSeq(text, Len(text), Len(text)) = "0"
    THEN stripZeros(SubSeq(text, 1, Len(text) - 1))
    ELSE text

\* Mutation of formatStroopsAsXlm: the fractional digits written without
\* their leading zeros.
formatStroopsAsXlm_Unpadded(stroops) ==
    LET negative == stroops < 0
        absolute == IF negative THEN -stroops ELSE stroops
        whole == absolute \div STROOPS_PER_XLM
        fractional == stripZeros(toString(absolute % STROOPS_PER_XLM))
    IN (IF negative THEN "-" ELSE "") \o toString(whole)
           \o (IF fractional # "" THEN "." \o fractional ELSE "")

formatStroopsAsXlm(stroops) ==
    LET negative == stroops < 0
        absolute == IF negative THEN -stroops ELSE stroops
        whole == absolute \div STROOPS_PER_XLM
        fractionalRaw == padStart(toString(absolute % STROOPS_PER_XLM), 7, "0")
        fractional == stripZeros(fractionalRaw)
    IN (IF negative THEN "-" ELSE "") \o toString(whole)
           \o (IF fractional # "" THEN "." \o fractional ELSE "")

\* Mutation of ShiftAdd: the sum computed in floating point, the low bits of
\* a large magnitude lost.
ShiftAdd_Float(hi, lo) ==
    LET sum == hi * 2 ^ HalfBits + lo
    IN IF sum >= 2 ^ HalfBits \/ sum <= -(2 ^ HalfBits)
       THEN (sum \div 1024) * 1024 ELSE sum

\* (hi << 64n) + lo
ShiftAdd(hi, lo) == hi * 2 ^ HalfBits + lo

\* The integer of the smallest units a wire value of a supported tag holds.
Stroops(value) ==
    CASE value.tag \in {"scvI128", "scvU128"} ->
            ShiftAdd(BigInt(toString(value.hi)), BigInt(toString(value.lo)))
      [] value.tag \in {"scvI64", "scvU64"} -> BigInt(toString(value.value))
      [] value.tag \in {"scvI32", "scvU32"} -> value.value

\* fetchNativeBalanceXlm from the settlement of its query: the decoded and
\* formatted value, "0" for a void value or a missing entry, or the failure
\* thrown on.
fetchNativeBalanceXlm(outcome) ==
    LET decoded == outcome.kind = "fulfilled"
                     /\ outcome.value.tag \in {"scvI128", "scvU128", "scvI64", "scvU64",
                                                "scvI32", "scvU32", "scvVoid"}
        error == IF outcome.kind = "rejected" THEN outcome.error
                 ELSE PlainError("Unexpected balance value type: " \o outcome.value.tag)
    IN IF decoded
       THEN [ok |-> TRUE,
             text |-> IF outcome.value.tag = "scvVoid" THEN "0"
                      ELSE formatStroopsAsXlm(Stroops(outcome.value))]
       ELSE IF isMissingBalanceError(error) THEN [ok |-> TRUE, text |-> "0"]
       ELSE [ok |-> FALSE,
             text |-> getUnknownErrorMessage(error, "Failed to load balance")]

\* RPC failures that do not say that the balance entry is missing: the
\* timeout of withTimeout, a JSON-RPC error, an HTTP error, a thrown value
\* without message.
OtherRpcErrors ==
    { PlainError("balance query timed out after " \o toString(BALANCE_TIMEOUT_MS) \o "ms"),
      PlainError("rpc failed"),
      PlainError("Method not found"),
      MkError("object", "Request failed with status code 404 (Not Found)", Null, Null),
      MkError("object", Null, Null, Null) }

\* xdr.ScVal as getContractData returns it: the tag and the parts read of it.
WireValues ==
    { [tag |-> t, hi |-> hi, lo |-> lo] :
        t \in {"scvI128"}, hi \in {-2, -1, 0, 1},
        lo \in {0, 1, 25000000, 2 ^ HalfBits - 1} }
    \cup { [tag |-> t, hi |-> hi, lo |-> lo] :
             t \in {"scvU128"}, hi \in {0, 3},
             lo \in {0, 12345678, 25000000, 2 ^ HalfBits - 1} }
    \cup { [tag |-> t, value |-> v] :
             t \in {"scvI64", "scvI32"},
             v \in {-25000000, -10000001, -1, 0, 7, 10000000} }
    \cup { [tag |-> t, value |-> v] :
             t \in {"scvU64", "scvU32"}, v \in {0, 100, 25000000, 1234567890} }
    \cup { [tag |-> t] : t \in {"scvVoid", "scvBool", "scvSymbol", "scvU256",
                                "scvLedgerKeyContractInstance"} }

\* What getContractData, under its timeout, hands to fetchNativeBalanceXlm in
\* the controller, and every outcome fetchNativeBalanceXlm is applied to.
BalanceOutcomes ==
    {Fulfilled([tag |-> "scvI128", hi |-> 0, lo |-> 25000000])} \cup { Rejected(e) : e \in BalanceErrors }
AllBalanceOutcomes ==
    { Fulfilled(v) : v \in WireValues }
    \cup { Rejected(e) : e \in MissingEntryErrors \cup BalanceErrors \cup OtherRpcErrors }

\* What each query outcome of the controller makes of fetchNativeBalanceXlm.
BalanceAnswers == [o \in BalanceOutcomes |-> fetchNativeBalanceXlm(o)]

---------------------------------------------------------------------------
(* The controller's state as one value, so that the code after an await is a
   function of the state it finds and of the outcome it is handed *)

St == [contractId |-> contractId, credentialId |-> credentialId, busy |-> busy,
       restoring |-> restoring, errorBanner |-> errorBanner, logs |-> logs,
       transferState |-> transferState, balance |-> balance,
       snapshot |-> snapshot, balQ |-> balQ, sawReauth |-> sawReauth]

Assign(s) ==
    /\ contractId' = s.contractId
    /\ credentialId' = s.credentialId
    /\ busy' = s.busy
    /\ restoring' = s.restoring
    /\ errorBanner' = s.errorBanner
    /\ logs' = s.logs
    /\ transferState' = s.transferState
    /\ balance' = s.balance
    /\ snapshot' = s.snapshot
    /\ balQ' = s.balQ
    /\ sawReauth' = s.sawReauth

Min(a, b) == IF a < b THEN a ELSE b

pushLog(s, tag, message, type) ==
    LET all == <<[tag |-> tag, message |-> message, type |-> type]>> \o s.logs
    IN [s EXCEPT !.logs = SubSeq(all, 1, Min(Len(all), MAX_LOGS))]

setBusy(s, b) == [s EXCEPT !.busy = b, !.sawReauth = @ \/ b = "reauth"]

readSessionSnapshot(s) == IF lsMode = "ok" THEN s.snapshot ELSE NoSnapshot

\* A write that never reaches the store, to test C13.
writeSessionSnapshot_Dropped(s, c, k) == s

writeSessionSnapshot(s, c, k) ==
    IF lsMode = "ok"
    THEN [s EXCEPT !.snapshot = [contractId |-> c, credentialId |-> k]]
    ELSE s

clearSessionSnapshot(s) ==
    IF lsMode = "ok" THEN [s EXCEPT !.snapshot = NoSnapshot] ELSE s

\* refreshBalance up to its await: the query is in flight, nothing can cancel it.
refreshBalance(s, target) ==
    [s EXCEPT !.balance = LoadingBalance,
              !.balQ[[target |-> target, src |-> "refresh"]] = @ + 1]

\* The effect on [contractId]: when a commit changes contractId the clean-up of
\* the previous run sets its cancelled flag, and the effect runs again.
Commit(old, s) ==
    IF s.contractId = old.contractId THEN s
    ELSE LET q == [k \in BalanceKinds |->
                     CASE k.src = "effect" -> 0
                       [] k.src = "stale" ->
                            s.balQ[k] + s.balQ[[target |-> k.target, src |-> "effect"]]
                       [] OTHER -> s.balQ[k]]
         IN IF s.contractId = Null
            THEN [s EXCEPT !.balQ = q, !.balance = IdleBalance]
            ELSE [s EXCEPT !.balance = LoadingBalance,
                           !.balQ = [q EXCEPT ![[target |-> s.contractId,
                                                 src |-> "effect"]] = @ + 1]]

---------------------------------------------------------------------------
(* The handlers: the code of each after its await, given the guard's outcome.
   The result is the state it leaves and the value it throws, if any. *)

Done(s) == [s |-> s, thrown |-> NoError]
Throw(s, e) == [s |-> s, thrown |-> e]

LogIf(s, cond, message, type) == IF cond THEN pushLog(s, "-", message, type) ELSE s

handleCreateWallet(s, outcome) ==
    IF outcome.kind = "rejected" THEN Throw(s, outcome.error)
    ELSE LET r == outcome.value
             s1 == [s EXCEPT !.contractId = r.contractId,
                             !.credentialId = r.credentialId]
             s2 == writeSessionSnapshot(s1, r.contractId, r.credentialId)
             s3 == refreshBalance([s2 EXCEPT !.transferState = IdleTransfer],
                                  r.contractId)
             s4 == pushLog(s3, "-", "Wallet created", "success")
             s5 == LogIf(s4, r.submit = "ok", "Deployment submitted", "success")
             s6 == LogIf(s5, r.submit = "fail", "Deployment failed", "error")
             s7 == LogIf(s6, r.fund = "ok", "Wallet funded", "success")
         IN Done(LogIf(s7, r.fund = "fail", "Funding failed", "error"))

handleConnectWallet(s, outcome) ==
    IF outcome.kind = "rejected" THEN Throw(s, outcome.error)
    ELSE IF outcome.value = NoWallet THEN Throw(s, PlainError("No wallet connected."))
    ELSE LET r == outcome.value
             s1 == [s EXCEPT !.contractId = r.contractId,
                             !.credentialId = r.credentialId]
             s2 == writeSessionSnapshot(s1, r.contractId, r.credentialId)
             s3 == refreshBalance([s2 EXCEPT !.transferState = IdleTransfer],
                                  r.contractId)
         IN Done(pushLog(s3, "-", "Connected wallet", "success"))

toTransferError(result) ==
    IF result.error # Null THEN result.error
    ELSE "Transfer failed with an unknown error."

\* ctx holds what the handler closed over when it was called: the form fields
\* and the contractId of the render it belongs to.
handleTransfer(s, ctx, outcome) ==
    IF outcome.kind = "rejected" THEN Throw(s, outcome.error)
    ELSE LET r == outcome.value IN
         IF r.success THEN
            LET s1 == [s EXCEPT !.transferState =
                          [status |-> "success", hash |-> r.hash, error |-> Null,
                           amount |-> ctx.amount, recipient |-> ctx.recipient]]
                s2 == pushLog(s1, "-", "Transfer submitted", "success")
            IN Done(IF ctx.contractId # Null
                    THEN refreshBalance(s2, ctx.contractId) ELSE s2)
         ELSE Throw([s EXCEPT !.transferState =
                        [status |-> "error", hash |-> r.hash,
                         error |-> toTransferError(r),
                         amount |-> ctx.amount, recipient |-> ctx.recipient]],
                    PlainError(toTransferError(r)))

handleDisconnect(s, outcome) ==
    IF outcome.kind = "rejected" THEN Throw(s, outcome.error)
    ELSE LET s1 == [s EXCEPT !.contractId = Null, !.credentialId = Null]
             s2 == clearSessionSnapshot(s1)
             s3 == [s2 EXCEPT !.transferState = IdleTransfer,
                              !.balance = IdleBalance]
         IN Done(pushLog(s3, "-", "Disconnected from wallet.", "success"))

HandlerAfterAwait(operation, s, ctx, outcome) ==
    CASE operation = "create" -> handleCreateWallet(s, outcome)
      [] operation = "connect" -> handleConnectWallet(s, outcome)
      [] operation = "transfer" -> handleTransfer(s, ctx, outcome)
      [] OTHER -> handleDisconnect(s, outcome)

\* Mutant: runOperation without its test of busy.
Accepts_Always(b) == TRUE

\* runOperation: the test that lets a request in.
Accepts(b) == b = Null

\* runOperation before the handler is called.
runOperationBegin(s, operation) ==
    [setBusy(s, operation) EXCEPT !.errorBanner = Null]

\* Mutant: busy is cleared after the handler returns, not in a finally.
runOperationEnd_NoFinally(operation, r) ==
    IF r.thrown = NoError THEN setBusy(r.s, Null)
    ELSE LET message == normalizeErrorMessage(operation, r.thrown)
         IN pushLog([r.s EXCEPT !.errorBanner = message], operation, message, "error")

\* runOperation once the handler has returned or thrown: catch, then finally.
runOperationEnd(operation, r) ==
    LET s1 == IF r.thrown = NoError THEN r.s
              ELSE LET message == normalizeErrorMessage(operation, r.thrown)
                   IN pushLog([r.s EXCEPT !.errorBanner = message],
                              operation, message, "error")
    IN setBusy(s1, Null)

\* Mutant: the restore effect never clears restoring.
RestoreEnd_KeepsRestoring(s, cancelled) == s

\* The restore effect's code after each of its two awaits.  next says whether
\* the run goes on to the snapshot connect or is over.
RestoreEnd(s, cancelled) == IF cancelled THEN s ELSE [s EXCEPT !.restoring = FALSE]

RestoreCatch(s, cancelled, e) ==
    IF cancelled THEN s
    ELSE LET message == normalizeErrorMessage("restore", e)
         IN pushLog([s EXCEPT !.errorBanner = message], "restore", message, "error")

RestoreConnected(s, r, message) ==
    LET s1 == [s EXCEPT !.contractId = r.contractId, !.credentialId = r.credentialId]
        s2 == writeSessionSnapshot(s1, r.contractId, r.credentialId)
    IN pushLog(s2, "-", message, "success")

RestoreAfterAwait(s, pc, cancelled, outcome) ==
    IF outcome.kind = "rejected"
    THEN [s |-> RestoreEnd(RestoreCatch(s, cancelled, outcome.error), cancelled),
          next |-> "done"]
    ELSE IF cancelled THEN [s |-> s, next |-> "done"]
    ELSE IF outcome.value # NoWallet
    THEN [s |-> RestoreEnd(RestoreConnected(s, outcome.value,
                    IF pc = "silent" THEN "Restored previous wallet session."
                    ELSE "Restored via snapshot"), cancelled),
          next |-> "done"]
    ELSE IF pc = "silent" /\ readSessionSnapshot(s) # NoSnapshot
    THEN [s |-> pushLog(s, "-", "No SDK session found. Trying local restore snapshot.",
                        "info"),
          next |-> "snapshot"]
    ELSE [s |-> RestoreEnd(pushLog(s, "-",
                    "No previous session found. Connect or create a wallet.", "info"),
                    cancelled),
          next |-> "done"]

---------------------------------------------------------------------------
(* Storage: the credential codec, the persistent adapter over the Preferences
   key-value store, the in-memory adapter, and createKit's runStorage *)

MaxCalls == 2
MaxPending == 1

CredIds == {"KA", "KB"}

\* A base64 text is the sequence of its characters' values in the base64
\* alphabet, 64 standing for the padding '='.
Pad == 64

RECURSIVE toBase64(_)
toBase64(input) ==
    IF input = <<>> THEN <<>>
    ELSE LET n == Len(input)
             a == input[1]
             b == IF n >= 2 THEN input[2] ELSE 0
             c == IF n >= 3 THEN input[3] ELSE 0
             quad == << a \div 4,
                        (a % 4) * 16 + b \div 16,
                        IF n >= 2 THEN (b % 16) * 4 + c \div 64 ELSE Pad,
                        IF n >= 3 THEN c % 64 ELSE Pad >>
         IN quad \o toBase64(SubSeq(input, Min(n, 3) + 1, n))

\* atob: the text without its padding must not leave one character over, and
\* the bits left over by the last characters are dropped.
RECURSIVE DecodeQuads(_)
DecodeQuads(t) ==
    IF Len(t) < 2 THEN <<>>
    ELSE LET n == Len(t)
             a == t[1]
             b == t[2]
             c == IF n >= 3 THEN t[3] ELSE 0
             d == IF n >= 4 THEN t[4] ELSE 0
             bytes == << a * 4 + b \div 16 >>
                      \o (IF n >= 3 THEN << (b % 16) * 16 + c \div 4 >> ELSE <<>>)
                      \o (IF n >= 4 THEN << (c % 4) * 64 + d >> ELSE <<>>)
         IN bytes \o DecodeQuads(SubSeq(t, Min(n, 4) + 1, n))

\* Mutation of fromBase64: the padding is not taken off before decoding.
fromBase64_Unpadded(input) ==
    IF (\E i \in 1..Len(input) : input[i] = Pad) \/ Len(input) % 4 = 1
    THEN [ok |-> FALSE, bytes |-> <<>>]
    ELSE [ok |-> TRUE, bytes |-> DecodeQuads(input)]

fromBase64(input) ==
    LET n == Len(input)
        pads == IF n % 4 = 0 /\ n >= 2 /\ input[n] = Pad
                THEN (IF input[n - 1] = Pad THEN 2 ELSE 1) ELSE 0
        text == SubSeq(input, 1, n - pads)
    IN IF (\E i \in 1..Len(text) : text[i] = Pad) \/ Len(text) % 4 = 1
       THEN [ok |-> FALSE, bytes |-> <<>>]
       ELSE [ok |-> TRUE, bytes |-> DecodeQuads(text)]

serializeCredential(credential) ==
    [credential EXCEPT !.publicKey = toBase64(credential.publicKey)]

deserializeCredential(payload) ==
    LET key == fromBase64(payload.publicKey)
    IN [ok |-> key.ok, credential |-> [payload EXCEPT !.publicKey = key.bytes]]

Credential(id, contract, key, meta) ==
    [credentialId |-> id, contractId |-> contract, publicKey |-> key, meta |-> meta]

Credentials == { Credential("KA", "CA", <<4, 255>>, 0),
                 Credential("KB", "CB", <<77>>, 0) }

\* The fields update is given; those of a record that are not named are kept.
Updates == { [meta |-> 1],
             [credentialId |-> "KB", publicKey |-> <<9>>, contractId |-> "CB"] }

Session(w) == [contractId |-> w.contractId, credentialId |-> w.credentialId,
               expired |-> TRUE]
Sessions == { Session([contractId |-> "CA", credentialId |-> "KA"]) }

\* What a key of the Preferences store holds.
Absent == [kind |-> "absent"]
JsonObject(v) == [kind |-> "object", value |-> v]
JsonArray(v) == [kind |-> "array", value |-> v]

EmptyStore == [credential |-> [id \in CredIds |-> Absent], index |-> Absent,
               session |-> Absent]

\* The persistent store as a process finds it: empty, or as an earlier process
\* that saved the credential c left it.
StoreWith(c) ==
    [EmptyStore EXCEPT !.credential[c.credentialId] = JsonObject(serializeCredential(c)),
                       !.index = JsonArray(<<c.credentialId>>)]
StartStores == {EmptyStore} \cup { StoreWith(c) : c \in Credentials }

\* The persisted Session Record as the app finds it at startup.
sessionRecord ==
    IF pstore.session.kind # "object" THEN "none"
    ELSE IF pstore.session.value.expired THEN "expired" ELSE "live"

\* What a storage call returns.
RVoid == [type |-> "void"]
RNull == [type |-> "null"]
RCredential(c) == [type |-> "credential", value |-> c]
RList(l) == [type |-> "list", value |-> l]
RSession(s) == [type |-> "session", value |-> s]

\* The calls of the Storage Facade.
StorageCalls ==
    { [kind |-> "save", credential |-> c] : c \in Credentials }
    \cup { [kind |-> k, credentialId |-> id] : k \in {"get", "delete"}, id \in CredIds }
    \cup { [kind |-> "getByContract", contractId |-> c] : c \in {"CB"} }
    \cup { [kind |-> "update", credentialId |-> id, updates |-> u] :
             id \in {"KA"}, u \in Updates }
    \cup { [kind |-> "saveSession", session |-> s] : s \in Sessions }
    \cup { [kind |-> k] : k \in {"getAll", "clear", "getSession", "clearSession"} }

Includes(seq, x) == \E i \in DOMAIN seq : seq[i] = x

\* Mutation of Merge: { ...current, ...updates } alone.
Merge_Spreads(current, updates) ==
    [f \in DOMAIN current \cup DOMAIN updates |->
        IF f \in DOMAIN updates THEN updates[f] ELSE current[f]]

\* { ...current, ...updates, credentialId: current.credentialId,
\*   publicKey: current.publicKey }
Merge(current, updates) ==
    [f \in DOMAIN current \cup DOMAIN updates |->
        IF f \in {"credentialId", "publicKey"} THEN current[f]
        ELSE IF f \in DOMAIN updates THEN updates[f] ELSE current[f]]

(* MemoryStorageAdapter.  credentials is a Map: its entries in insertion
   order, a set of an existing key keeping the entry's place. *)

EmptyMemory == [credentials |-> <<>>, session |-> RNull]

\* Mutation of MapSet: a set of an existing key moves the entry to the end.
MapSet_MovesToEnd(entries, c) ==
    Append(SelectSeq(entries, LAMBDA x : x.credentialId # c.credentialId), c)

MapSet(entries, c) ==
    IF \E i \in DOMAIN entries : entries[i].credentialId = c.credentialId
    THEN [i \in DOMAIN entries |->
            IF entries[i].credentialId = c.credentialId THEN c ELSE entries[i]]
    ELSE Append(entries, c)

MapGet(entries, id) ==
    LET hits == SelectSeq(entries, LAMBDA c : c.credentialId = id)
    IN IF hits = <<>> THEN RNull ELSE RCredential(hits[1])

MapDelete(entries, id) == SelectSeq(entries, LAMBDA c : c.credentialId # id)

Returns(m, result) == [m |-> m, result |-> result]

\* The fallbackOperation of each facade method: the method of
\* MemoryStorageAdapter of the same name, with the same arguments.
fallbackOperation(call, m) ==
    CASE call.kind = "save" ->
            Returns([m EXCEPT !.credentials = MapSet(@, call.credential)], RVoid)
      [] call.kind = "get" ->
            Returns(m, MapGet(m.credentials, call.credentialId))
      [] call.kind = "getByContract" ->
            Returns(m, RList(SelectSeq(m.credentials,
                                       LAMBDA c : c.contractId = call.contractId)))
      [] call.kind = "getAll" ->
            Returns(m, RList(m.credentials))
      [] call.kind = "delete" ->
            Returns([m EXCEPT !.credentials = MapDelete(@, call.credentialId)], RVoid)
      [] call.kind = "update" ->
            LET current == MapGet(m.credentials, call.credentialId)
            IN IF current = RNull THEN Returns(m, RVoid)
               ELSE Returns([m EXCEPT !.credentials =
                                MapSet(@, Merge(current.value, call.updates))], RVoid)
      [] call.kind = "clear" ->
            Returns(EmptyMemory, RVoid)
      [] call.kind = "saveSession" ->
            Returns([m EXCEPT !.session = RSession(call.session)], RVoid)
      [] call.kind = "getSession" ->
            Returns(m, m.session)
      [] call.kind = "clearSession" ->
            Returns([m EXCEPT !.session = RNull], RVoid)

(* CapacitorStorageAdapter.  A method runs from one awaited Preferences call
   to the next; pc names the Preferences call it makes next. *)

NoCredential == Credential(Null, Null, <<>>, 0)

getCredentialIndex(p) == IF p.index.kind = "array" THEN p.index.value ELSE <<>>

\* Mutation of ParseCredential: whatever is stored is handed back decoded as
\* far as it goes.
ParseCredential_Unchecked(v) ==
    IF v.kind = "absent" THEN RNull
    ELSE IF v.kind = "object" THEN RCredential(deserializeCredential(v.value).credential)
    ELSE RCredential(NoCredential)

\* get: a missing value, a text that does not parse and a key that does not
\* decode all give null.
ParseCredential(v) ==
    IF v.kind # "object" THEN RNull
    ELSE LET d == deserializeCredential(v.value)
         IN IF d.ok THEN RCredential(d.credential) ELSE RNull

ParseSession(v) == IF v.kind # "object" THEN RNull ELSE RSession(v.value)

FirstPc(kind) ==
    CASE kind \in {"save", "getAll", "getByContract", "delete", "clear"} -> "getIndex"
      [] kind \in {"get", "update"} -> "get"
      [] kind = "saveSession" -> "setSession"
      [] kind = "getSession" -> "getSession"
      [] kind = "clearSession" -> "removeSession"

\* persistentOperation(): the method has been called and awaits its first
\* Preferences call.
persistentOperation(call, n, latched) ==
    [n |-> n, call |-> call, latched |-> latched, awaited |-> TRUE,
     pc |-> FirstPc(call.kind), index |-> <<>>, todo |-> <<>>, acc |-> <<>>,
     credential |-> NoCredential]

Goes(c, p) == [c |-> c, p |-> p, done |-> FALSE, result |-> RVoid]
Ends(c, p, result) == [c |-> c, p |-> p, done |-> TRUE, result |-> result]

ListResult(c, acc) ==
    IF c.call.kind = "getByContract"
    THEN RList(SelectSeq(acc, LAMBDA x : x.contractId = c.call.contractId))
    ELSE RList(acc)

AtGetIndex(c, p) ==
    LET index == getCredentialIndex(p)
    IN CASE c.call.kind \in {"save", "update"} ->
               Goes([c EXCEPT !.index = index, !.pc = "set"], p)
         [] c.call.kind \in {"getAll", "getByContract"} ->
               IF index = <<>> THEN Ends(c, p, ListResult(c, <<>>))
               ELSE Goes([c EXCEPT !.todo = index, !.pc = "get"], p)
         [] c.call.kind = "delete" ->
               Goes([c EXCEPT !.index = index, !.pc = "remove"], p)
         [] c.call.kind = "clear" ->
               IF index = <<>> THEN Goes([c EXCEPT !.pc = "removeIndex"], p)
               ELSE Goes([c EXCEPT !.todo = index, !.pc = "remove"], p)

\* Mutation of AtGet: getAll pushes what get returned, null or not.
AtGet_PushesNull(c, p) ==
    LET id == IF c.call.kind \in {"get", "update"} THEN c.call.credentialId
              ELSE Head(c.todo)
        found == ParseCredential(p.credential[id])
    IN CASE c.call.kind = "get" -> Ends(c, p, found)
         [] c.call.kind = "update" ->
               IF found = RNull THEN Ends(c, p, RVoid)
               ELSE Goes([c EXCEPT !.credential = Merge(found.value, c.call.updates),
                                   !.pc = "getIndex"], p)
         [] c.call.kind \in {"getAll", "getByContract"} ->
               LET acc == Append(c.acc, IF found = RNull THEN NoCredential
                                        ELSE found.value)
               IN IF Tail(c.todo) = <<>> THEN Ends(c, p, ListResult(c, acc))
                  ELSE Goes([c EXCEPT !.acc = acc, !.todo = Tail(@)], p)

AtGet(c, p) ==
    LET id == IF c.call.kind \in {"get", "update"} THEN c.call.credentialId
              ELSE Head(c.todo)
        found == ParseCredential(p.credential[id])
    IN CASE c.call.kind = "get" -> Ends(c, p, found)
         [] c.call.kind = "update" ->
               IF found = RNull THEN Ends(c, p, RVoid)
               ELSE Goes([c EXCEPT !.credential = Merge(found.value, c.call.updates),
                                   !.pc = "getIndex"], p)
         [] c.call.kind \in {"getAll", "getByContract"} ->
               LET acc == IF found = RNull THEN c.acc ELSE Append(c.acc, found.value)
               IN IF Tail(c.todo) = <<>> THEN Ends(c, p, ListResult(c, acc))
                  ELSE Goes([c EXCEPT !.acc = acc, !.todo = Tail(@)], p)

\* Mutation of AtSet: the id is pushed whether or not the index includes it.
AtSet_AlwaysPushes(c, p) ==
    LET credential == IF c.call.kind = "save" THEN c.call.credential ELSE c.credential
        id == credential.credentialId
    IN Goes([c EXCEPT !.index = Append(@, id), !.pc = "setIndex"],
            [p EXCEPT !.credential[id] = JsonObject(serializeCredential(credential))])

AtSet(c, p) ==
    LET credential == IF c.call.kind = "save" THEN c.call.credential ELSE c.credential
        id == credential.credentialId
        q == [p EXCEPT !.credential[id] = JsonObject(serializeCredential(credential))]
    IN IF Includes(c.index, id) THEN Ends(c, q, RVoid)
       ELSE Goes([c EXCEPT !.index = Append(@, id), !.pc = "setIndex"], q)

AtRemove(c, p) ==
    IF c.call.kind = "delete"
    THEN Goes([c EXCEPT !.index = SelectSeq(@, LAMBDA id : id # c.call.credentialId),
                        !.pc = "setIndex"],
              [p EXCEPT !.credential[c.call.credentialId] = Absent])
    ELSE Goes([c EXCEPT !.todo = Tail(@),
                        !.pc = IF Tail(c.todo) = <<>> THEN "removeIndex" ELSE "remove"],
              [p EXCEPT !.credential[Head(c.todo)] = Absent])

\* One Preferences call of the method succeeds, and the method runs on to its
\* next one or to its end.
PersistentStep(c, p) ==
    CASE c.pc = "getIndex" -> AtGetIndex(c, p)
      [] c.pc = "get" -> AtGet(c, p)
      [] c.pc = "set" -> AtSet(c, p)
      [] c.pc = "setIndex" -> Ends(c, [p EXCEPT !.index = JsonArray(c.index)], RVoid)
      [] c.pc = "remove" -> AtRemove(c, p)
      [] c.pc = "removeIndex" ->
            Goes([c EXCEPT !.pc = "removeSession"], [p EXCEPT !.index = Absent])
      [] c.pc = "removeSession" -> Ends(c, [p EXCEPT !.session = Absent], RVoid)
      [] c.pc = "setSession" ->
            Ends(c, [p EXCEPT !.session = JsonObject(c.call.session)], RVoid)
      [] c.pc = "getSession" -> Ends(c, p, ParseSession(p.session))

(* runStorage *)

\* Mutation of runStorageEnters: the latch is not looked at.
runStorageEnters_IgnoresLatch(latch) == "persistent"

\* if (usingMemoryFallback) return fallbackOperation();
runStorageEnters(latch) == IF latch THEN "fallback" ELSE "persistent"

\* Mutation of runStorageCatch: the failure is thrown on to the caller.
runStorageCatch_Rethrows(call, m) ==
    [usingMemoryFallback |-> TRUE, m |-> m,
     outcome |-> Rejected(PlainError("storage failed"))]

\* catch { usingMemoryFallback = true; return fallbackOperation(); }
runStorageCatch(call, m) ==
    LET r == fallbackOperation(call, m)
    IN [usingMemoryFallback |-> TRUE, m |-> r.m, outcome |-> Fulfilled(r.result)]

\* slast: the facade call n has returned; latched is the latch as the call
\* found it, served is the store that gave the result.
Returned(n, call, latched, served, outcome) ==
    [n |-> n, call |-> call, latched |-> latched, served |-> served,
     outcome |-> outcome]
NoReturn == Returned(0, [kind |-> Null], FALSE, "-", NoOutcome)

StorageStart ==
    /\ usingMemoryFallback = FALSE
    /\ mstore = EmptyMemory
    /\ pcalls = <<>>
    /\ nCalls = 0
    /\ slast = NoReturn

---------------------------------------------------------------------------
(* Initial state: App is mounted, its effects have run: the restore effect has
   set restoring and awaits the silent connect *)

NoGuard == [operation |-> Null, timeoutMs |-> 0, timer |-> "none",
            inner |-> Pending, outcome |-> NoOutcome]
NoCtx == [amount |-> 0, recipient |-> Null, contractId |-> Null]
NoCall == [op |-> Null, guard |-> NoGuard, ctx |-> NoCtx, pc |-> "-"]

\* last names the step when it ends a handler, turns a request away or is a
\* late settlement (with the guard as the settlement leaves it), and is Quiet
\* after any other step.
Step(act, op, how) == [act |-> act, op |-> op, how |-> how, guard |-> NoGuard]
Late(op, guard) == [act |-> "late", op |-> op, how |-> guard.inner.kind, guard |-> guard]
Quiet == Step("-", "-", "-")
\* runOperation has ended; thrown is what its handler threw, if anything.
Finished(op, how, thrown) ==
    [act |-> "finished", op |-> op, how |-> how, guard |-> NoGuard, thrown |-> thrown]

\* App has mounted and the kit is made: everything but the persistent store.
Mounted ==
    /\ contractId = Null
    /\ credentialId = Null
    /\ busy = Null
    /\ restoring = TRUE
    /\ errorBanner = Null
    /\ logs = <<>>
    /\ transferState = IdleTransfer
    /\ balance = IdleBalance
    /\ lsMode \in {"ok", "fail"}
    /\ snapshot \in IF lsMode = "ok" THEN Wallets \cup {NoSnapshot} ELSE {NoSnapshot}
    /\ StorageStart
    /\ cur = NoCall
    /\ rst = [pc |-> "silent", cancelled |-> FALSE, silent |-> "pending",
              snap |-> "unread",
              guard |-> withOperationTimeout("restore", RESTORE_TIMEOUT_MS)]
    /\ orphans = <<>>
    /\ balQ = [k \in BalanceKinds |-> 0]
    /\ nReq = 0
    /\ sawReauth = FALSE
    /\ last = Quiet

\* The app starts with no Session Record stored.
Init ==
    /\ Mounted
    /\ pstore = EmptyStore

\* The app starts with a stored Session Record that has expired.
ExpiredInit ==
    /\ Mounted
    /\ pstore \in { [EmptyStore EXCEPT !.session = JsonObject(s)] : s \in Sessions }

\* The app right after handleConnectWallet has connected wallet CA, the
\* restore still waiting for its silent connect: the effect and refreshBalance
\* have a balance query for CA in flight each.  Requests are counted from here.
ConnectedInit ==
    /\ contractId = "CA"
    /\ credentialId = "KA"
    /\ busy = Null
    /\ restoring = TRUE
    /\ errorBanner = Null
    /\ logs = <<[tag |-> "-", message |-> "Connected wallet", type |-> "success"]>>
    /\ transferState = IdleTransfer
    /\ balance = LoadingBalance
    /\ lsMode = "ok"
    /\ snapshot = [contractId |-> "CA", credentialId |-> "KA"]
    /\ StorageStart
    /\ pstore = EmptyStore
    /\ cur = NoCall
    /\ rst = [pc |-> "silent", cancelled |-> FALSE, silent |-> "pending",
              snap |-> "unread",
              guard |-> withOperationTimeout("restore", RESTORE_TIMEOUT_MS)]
    /\ orphans = <<>>
    /\ balQ = [k \in BalanceKinds |->
                 IF k.target = "CA" /\ k.src \in {"refresh", "effect"} THEN 1 ELSE 0]
    /\ nReq = 0
    /\ sawReauth = FALSE
    /\ last = Quiet

\* No code that awaits a settled guard is still to run.
NoMicrotask == cur.guard.outcome = NoOutcome /\ rst.guard.outcome = NoOutcome

\* What no step of the controller writes.
env == <<lsMode, storage>>

---------------------------------------------------------------------------
(* Requests: a handler is called.  runOperation up to the handler's await. *)

trim(name) == IF name \in {"", "  "} THEN "" ELSE name

\* A request that runOperation turns away.
Turned(operation) ==
    /\ ~Accepts(busy)
    /\ UNCHANGED <<ctl, cur, rst, orphans, env, nReq>>
    /\ last' = Step("turned", operation, "-")

\* The handler threw before it awaited anything.
ThrewAtOnce(operation, e) ==
    /\ Assign(Commit(St, runOperationEnd(operation,
                Throw(runOperationBegin(St, operation), e))))
    /\ UNCHANGED <<cur, rst, orphans, env>>
    /\ last' = Finished(operation, "invalid", e)

\* The handler issued its external call under the guard and awaits it.
Awaits(operation, timeoutMs, ctx, s) ==
    /\ Assign(Commit(St, s))
    /\ cur' = [op |-> operation, guard |-> withOperationTimeout(operation, timeoutMs),
               ctx |-> ctx, pc |-> "-"]
    /\ UNCHANGED <<rst, orphans, env>>
    /\ last' = Quiet

\* runOperation lets the request in.  The model bounds the requests made while
\* the controller is idle; a request made while it is busy is never bounded.
Let ==
    /\ Accepts(busy)
    /\ IF busy = Null THEN nReq < MaxRequests /\ nReq' = nReq + 1 ELSE nReq' = nReq

\* userName, recipient and amount are what the form holds when the handler is
\* called.
RequestCreate ==
    /\ NoMicrotask
    /\ \/ Turned("create")
       \/ /\ Let
          /\ \E userName \in UserNames :
               IF trim(userName) = ""
               THEN ThrewAtOnce("create",
                        PlainError("Enter a username before creating a wallet."))
               ELSE Awaits("create", CREATE_TIMEOUT_MS, NoCtx,
                        pushLog(runOperationBegin(St, "create"), "-",
                                "Starting wallet creation (passkey + deployment)...",
                                "info"))

RequestConnect ==
    /\ NoMicrotask
    /\ \/ Turned("connect")
       \/ /\ Let
          /\ Awaits("connect", CONNECT_TIMEOUT_MS, NoCtx,
                    runOperationBegin(St, "connect"))

RequestTransfer ==
    /\ NoMicrotask
    /\ \/ Turned("transfer")
       \/ /\ Let
          /\ \E recipient \in Recipients, amount \in Amounts :
               IF ~validateAddressOk(recipient)
               THEN ThrewAtOnce("transfer", MkError("SmartAccountError",
                        "invalid address", Null, "INVALID_ADDRESS"))
               ELSE IF ~validateAmountOk(amount)
               THEN ThrewAtOnce("transfer", MkError("SmartAccountError",
                        "invalid amount", Null, "INVALID_AMOUNT"))
               ELSE Awaits("transfer", TRANSFER_TIMEOUT_MS,
                        [amount |-> amount, recipient |-> recipient,
                         contractId |-> contractId],
                        runOperationBegin(St, "transfer"))

RequestDisconnect ==
    /\ NoMicrotask
    /\ \/ Turned("disconnect")
       \/ /\ Let
          /\ Awaits("disconnect", DISCONNECT_TIMEOUT_MS, NoCtx,
                    runOperationBegin(St, "disconnect"))

---------------------------------------------------------------------------
(* The guarded call of the running handler *)

\* The external call settles while its guard is still awaited.
CallSettles ==
    /\ NoMicrotask
    /\ cur.op # Null
    /\ cur.guard.inner = Pending
    /\ \E res \in SettlementsOf(cur.op) :
           cur' = [cur EXCEPT !.guard = GuardSettle(@, res)]
    /\ UNCHANGED <<ctl, rst, orphans, env, nReq>>
    /\ last' = Quiet

\* The guard's timer fires.
CallTimesOut ==
    /\ NoMicrotask
    /\ cur.op # Null
    /\ cur.guard.timer = "armed"
    /\ cur' = [cur EXCEPT !.guard = GuardTimeout(@)]
    /\ UNCHANGED <<ctl, rst, orphans, env, nReq>>
    /\ last' = Quiet

How(g) == IF g.outcome.kind = "fulfilled" THEN "value"
          ELSE IF g.timer = "fired" THEN "timeout" ELSE "failure"

\* Mutation of Continue: a transfer whose guard timed out is submitted again.
Continue_Resubmits ==
    /\ cur.op # Null
    /\ cur.guard.outcome # NoOutcome
    /\ IF cur.op = "transfer" /\ How(cur.guard) = "timeout"
       THEN /\ cur' = [cur EXCEPT !.guard = withOperationTimeout(cur.op, @.timeoutMs)]
            /\ UNCHANGED <<ctl, orphans, rst, env, nReq>>
            /\ last' = Quiet
       ELSE /\ Assign(Commit(St, runOperationEnd(cur.op,
                       HandlerAfterAwait(cur.op, St, cur.ctx, cur.guard.outcome))))
            /\ cur' = NoCall
            /\ orphans' = IF cur.guard.inner = Pending THEN Append(orphans, cur)
                          ELSE orphans
            /\ UNCHANGED <<rst, env, nReq>>
            /\ last' = Finished(cur.op, How(cur.guard),
                           HandlerAfterAwait(cur.op, St, cur.ctx, cur.guard.outcome).thrown)

\* The handler resumes with the guard's outcome and runs to the end of
\* runOperation.  A call that has not settled keeps running.
Continue ==
    /\ cur.op # Null
    /\ cur.guard.outcome # NoOutcome
    /\ Assign(Commit(St, runOperationEnd(cur.op,
                HandlerAfterAwait(cur.op, St, cur.ctx, cur.guard.outcome))))
    /\ cur' = NoCall
    /\ orphans' = IF cur.guard.inner = Pending THEN Append(orphans, cur) ELSE orphans
    /\ UNCHANGED <<rst, env, nReq>>
    /\ last' = Finished(cur.op, How(cur.guard),
                        HandlerAfterAwait(cur.op, St, cur.ctx, cur.guard.outcome).thrown)

---------------------------------------------------------------------------
(* The restore effect *)

RestoreSettles ==
    /\ NoMicrotask
    /\ rst.pc \in {"silent", "snapshot"}
    /\ rst.guard.inner = Pending
    /\ \E res \in SettlementsOf("restore") :
           rst' = [rst EXCEPT !.guard = GuardSettle(@, res)]
    /\ UNCHANGED <<ctl, cur, orphans, env, nReq>>
    /\ last' = Quiet

RestoreTimesOut ==
    /\ NoMicrotask
    /\ rst.pc \in {"silent", "snapshot"}
    /\ rst.guard.timer = "armed"
    /\ rst' = [rst EXCEPT !.guard = GuardTimeout(@)]
    /\ UNCHANGED <<ctl, cur, orphans, env, nReq>>
    /\ last' = Quiet

Seen(outcome) == IF outcome.kind = "rejected" THEN "failed"
                 ELSE IF outcome.value = NoWallet THEN "empty" ELSE "wallet"

RestoreContinue ==
    /\ rst.pc \in {"silent", "snapshot"}
    /\ rst.guard.outcome # NoOutcome
    /\ LET r == RestoreAfterAwait(St, rst.pc, rst.cancelled, rst.guard.outcome)
           silent == IF rst.pc = "silent" THEN Seen(rst.guard.outcome) ELSE rst.silent
           snap == IF rst.pc = "silent" /\ silent = "empty"
                   THEN (IF readSessionSnapshot(St) = NoSnapshot
                         THEN "absent" ELSE "present")
                   ELSE rst.snap
       IN /\ Assign(Commit(St, r.s))
          /\ rst' = [pc |-> r.next, cancelled |-> rst.cancelled, silent |-> silent,
                     snap |-> snap,
                     guard |-> IF r.next = "snapshot"
                               THEN withOperationTimeout("restore", RESTORE_TIMEOUT_MS)
                               ELSE NoGuard]
          /\ last' = IF r.next = "done"
                     THEN Step("finished", "restore", How(rst.guard)) ELSE Quiet
    /\ orphans' = IF rst.guard.inner = Pending
                  THEN Append(orphans, [op |-> "restore", guard |-> rst.guard,
                                        ctx |-> NoCtx, pc |-> rst.pc])
                  ELSE orphans
    /\ UNCHANGED <<cur, env, nReq>>

---------------------------------------------------------------------------
(* Calls that outlive their guard, and balance queries *)

Without(seq, i) == SubSeq(seq, 1, i - 1) \o SubSeq(seq, i + 1, Len(seq))

\* What the code awaiting guard g does when the call behind g settles: its
\* reactions run only if the settlement is the guard's outcome.
Deliver(s, o, before, after) ==
    IF after.outcome = before.outcome THEN s
    ELSE IF o.op = "restore"
    THEN RestoreAfterAwait(s, o.pc, rst.cancelled, after.outcome).s
    ELSE runOperationEnd(o.op, HandlerAfterAwait(o.op, s, o.ctx, after.outcome))

\* A call whose guard has timed out settles at last.
LateSettle ==
    /\ NoMicrotask
    /\ \E i \in 1..Len(orphans) :
         \E res \in SettlementsOf(orphans[i].op) :
           LET settled == GuardSettle(orphans[i].guard, res)
           IN /\ Assign(Commit(St, Deliver(St, orphans[i], orphans[i].guard, settled)))
              /\ orphans' = Without(orphans, i)
              /\ last' = Late(orphans[i].op, settled)
    /\ UNCHANGED <<cur, rst, env, nReq>>

Ready(target, text) ==
    [status |-> "ready", valueXlm |-> text, target |-> target, error |-> Null]
Failed(text) ==
    [status |-> "error", valueXlm |-> Null, target |-> Null, error |-> text]

\* A balance query settles; the code awaiting it is refreshBalance or the effect.
BalanceSettles ==
    /\ NoMicrotask
    /\ \E k \in BalanceKinds : \E o \in BalanceOutcomes :
         /\ balQ[k] > 0
         /\ LET ans == BalanceAnswers[o]
                s1 == [St EXCEPT !.balQ[k] = @ - 1]
                s2 == IF k.src = "stale" THEN s1
                      ELSE IF ans.ok
                      THEN [s1 EXCEPT !.balance = Ready(k.target, ans.text)]
                      ELSE LET s3 == [s1 EXCEPT !.balance = Failed(ans.text)]
                           IN IF k.src = "effect"
                              THEN pushLog(s3, "balance", ans.text, "error")
                              ELSE s3
            IN Assign(s2)
         /\ last' = IF o.kind = "fulfilled" \/ k.src = "stale" THEN Quiet
                    ELSE Step("balance", "failed", o.error.message)
    /\ UNCHANGED <<cur, rst, orphans, env, nReq>>

---------------------------------------------------------------------------

Next ==
    \/ RequestCreate
    \/ RequestConnect
    \/ RequestTransfer
    \/ RequestDisconnect
    \/ CallSettles
    \/ CallTimesOut
    \/ Continue
    \/ RestoreSettles
    \/ RestoreTimesOut
    \/ RestoreContinue
    \/ LateSettle
    \/ BalanceSettles

Spec == Init /\ [][Next]_vars

ExpiredSpec == ExpiredInit /\ [][Next]_vars
ConnectedSpec == ConnectedInit /\ [][Next]_vars

\* The event loop runs what is due: a timer that can fire does, and the code
\* awaiting a settled guard runs.
EventLoop == CallTimesOut \/ Continue \/ RestoreTimesOut \/ RestoreContinue

LiveSpec == Spec /\ WF_vars(EventLoop)

---------------------------------------------------------------------------
(* The Storage Facade at work: the kit calls its methods, the Preferences
   calls of the persistent adapter end one by one *)

\* A facade method is called.  With the latch set the in-memory adapter
\* answers; otherwise the persistent method starts under the storage timeout.
FacadeCall(call) ==
    /\ nCalls < MaxCalls
    /\ nCalls' = nCalls + 1
    /\ IF runStorageEnters(usingMemoryFallback) = "fallback"
       THEN LET r == fallbackOperation(call, mstore)
            IN /\ mstore' = r.m
               /\ slast' = Returned(nCalls + 1, call, usingMemoryFallback, "memory",
                                    Fulfilled(r.result))
               /\ UNCHANGED pcalls
       ELSE /\ Len(pcalls) < MaxPending
            /\ pcalls' = Append(pcalls, persistentOperation(call, nCalls + 1,
                                                            usingMemoryFallback))
            /\ UNCHANGED <<mstore, slast>>
    /\ UNCHANGED <<usingMemoryFallback, pstore, ctl, app>>

\* A Preferences call of a persistent method succeeds.  When the method ends
\* and runStorage still awaits it, the facade returns its result.
PersistentSucceeds(i) ==
    LET c == pcalls[i]
        r == PersistentStep(c, pstore)
    IN /\ pstore' = r.p
       /\ pcalls' = IF r.done THEN Without(pcalls, i) ELSE [pcalls EXCEPT ![i] = r.c]
       /\ slast' = IF r.done /\ c.awaited
                   THEN Returned(c.n, c.call, c.latched, "persistent", Fulfilled(r.result))
                   ELSE slast
       /\ UNCHANGED <<usingMemoryFallback, mstore, nCalls, ctl, app>>

\* The catch of runStorage, for the call c.
Replay(c) ==
    LET r == runStorageCatch(c.call, mstore)
    IN /\ usingMemoryFallback' = r.usingMemoryFallback
       /\ mstore' = r.m
       /\ slast' = Returned(c.n, c.call, c.latched, "replayed", r.outcome)

\* A Preferences call of a persistent method fails, and the method throws.
PersistentFails(i) ==
    LET c == pcalls[i]
    IN /\ pcalls' = Without(pcalls, i)
       /\ IF c.awaited THEN Replay(c)
          ELSE UNCHANGED <<usingMemoryFallback, mstore, slast>>
       /\ UNCHANGED <<pstore, nCalls, ctl, app>>

\* The storage timeout of an awaited persistent method fires; the method
\* itself runs on.
StorageTimesOut(i) ==
    LET c == pcalls[i]
    IN /\ c.awaited
       /\ pcalls' = [pcalls EXCEPT ![i].awaited = FALSE]
       /\ Replay(c)
       /\ UNCHANGED <<pstore, nCalls, ctl, app>>

StorageInit ==
    /\ Mounted
    /\ lsMode = "ok"
    /\ snapshot = NoSnapshot
    /\ pstore \in StartStores

StorageNext ==
    \/ \E call \in StorageCalls : FacadeCall(call)
    \/ \E i \in DOMAIN pcalls : PersistentSucceeds(i)
    \/ \E i \in DOMAIN pcalls : PersistentFails(i)
    \/ \E i \in DOMAIN pcalls : StorageTimesOut(i)

StorageSpec == StorageInit /\ [][StorageNext]_vars

---------------------------------------------------------------------------
(* The storage methods called one after the other, each awaited before the
   next, on a persistent store as an earlier process may have left it. *)

\* A stored text that JSON.parse rejects.
Unparsable == [kind |-> "text"]

\* A record whose publicKey is not base64: atob throws on it.
BadKey(c) == JsonObject([serializeCredential(c) EXCEPT !.publicKey = <<1>>])

BothStored ==
    [credential |-> [id \in CredIds |->
                        JsonObject(serializeCredential(
                            CHOOSE c \in Credentials : c.credentialId = id))],
     index |-> JsonArray(<<"KA", "KB">>),
     session |-> JsonObject(CHOOSE s \in Sessions : TRUE)]

\* The stores of StorageSpec, a store with both credentials and a session,
\* the same with the content of KA damaged or missing (a delete cut short
\* after its remove), a record without index entry (a save cut short after
\* its first write), and an index and session that do not parse.
AdapterStores ==
    StartStores
    \cup {BothStored}
    \cup { [BothStored EXCEPT !.credential["KA"] = v] :
             v \in {Unparsable, Absent} \cup { BadKey(c) : c \in Credentials } }
    \cup { [StoreWith(c) EXCEPT !.index = Absent] : c \in Credentials }
    \cup { [StoreWith(c) EXCEPT !.index = Unparsable, !.session = Unparsable] :
             c \in Credentials }

AdapterInit ==
    /\ Mounted
    /\ lsMode = "ok"
    /\ snapshot = NoSnapshot
    /\ pstore \in AdapterStores

\* The caller awaits a storage call before it makes the next one.
SequentialCall(call) == pcalls = <<>> /\ FacadeCall(call)

AdapterNext ==
    \/ \E call \in StorageCalls : SequentialCall(call)
    \/ \E i \in DOMAIN pcalls : PersistentSucceeds(i)
    \/ \E i \in DOMAIN pcalls : PersistentFails(i)

AdapterSpec == AdapterInit /\ [][AdapterNext]_vars

---------------------------------------------------------------------------
(* The pure functions of the controller applied to inputs of every kind:
   last holds the input, the controller's state the result.  A behaviour
   applies one function to one input. *)

FunctionInit ==
    /\ Mounted
    /\ lsMode = "ok"
    /\ snapshot = NoSnapshot
    /\ pstore = EmptyStore

\* fetchNativeBalanceXlm applied to the settlement of a query for CA, and the
\* Balance Result set as refreshBalance sets it.
Fetches ==
    /\ last = Quiet
    /\ \E o \in AllBalanceOutcomes :
       LET ans == fetchNativeBalanceXlm(o)
       IN /\ balance' = IF ans.ok THEN Ready("CA", ans.text) ELSE Failed(ans.text)
          /\ last' = [act |-> "fetch", outcome |-> o]
          /\ UNCHANGED <<contractId, credentialId, busy, restoring, errorBanner, logs,
                         transferState, snapshot, balQ, sawReauth, lsMode, cur, rst,
                         orphans, nReq, storage>>

\* The values handed to the classifier: time-outs of every operation, values
\* carrying each provider code as a PasskeyError or as the code property of
\* a plain object, kit errors, Errors that name the missing deployment, values
\* of no known kind, and values that belong to two kinds at once.
ClassifierInputs ==
    { OperationTimeoutError(op, RESTORE_TIMEOUT_MS) : op \in Operation }
    \cup { [OperationTimeoutError("create", CREATE_TIMEOUT_MS) EXCEPT !.code = "CANCELLED"],
           [OperationTimeoutError("connect", CONNECT_TIMEOUT_MS)
               EXCEPT !.message = "contract not found on-chain"] }
    \cup { MkError("PasskeyError", "provider said no", c, Null) :
             c \in PluginCodes \cup {"PLATFORM_ERROR"} }
    \cup { MkError("object", "native said no", Null, c) :
             c \in PluginCodes \cup {"PLATFORM_ERROR", "E_OTHER"} }
    \cup { MkError("object", Null, Null, "INVALID_INPUT"),
           MkError("SmartAccountError", "kit refused", "CANCELLED", "INVALID_ADDRESS"),
           MkError("Error", "contract not found on-chain", Null, "TIMEOUT") }
    \cup { MkError("SmartAccountError", "kit refused", Null, c) :
             c \in {"INVALID_ADDRESS", "INVALID_AMOUNT", "WALLET_NOT_CONNECTED",
                    "TRANSACTION_TIMEOUT", "SIMULATION_FAILED"} }
    \cup { MkError("SmartAccountError", "contract not found on-chain", Null,
                   "WALLET_NOT_CONNECTED"),
           PlainError("Wallet contract not found on-chain: CA"),
           PlainError("contract not found on-chain"),
           PlainError("boom"),
           MkError("object", "boom", Null, Null),
           MkError("string", "boom", Null, Null),
           MkError("object", Null, Null, Null),
           MkError("undefined", Null, Null, Null) }

\* normalizeErrorMessage, getPluginErrorCode and mapPluginError applied to a
\* thrown value; the banner shows the message.
Classifies ==
    /\ last = Quiet
    /\ \E operation \in Operation : \E e \in ClassifierInputs :
        /\ errorBanner' = normalizeErrorMessage(operation, e)
        /\ last' = [act |-> "classify", operation |-> operation, error |-> e,
                    pluginErrorCode |-> getPluginErrorCode(e),
                    mapped |-> mapPluginError(e)]
        /\ UNCHANGED <<contractId, credentialId, busy, restoring, logs,
                       transferState, balance, snapshot, balQ, sawReauth, lsMode,
                       cur, rst, orphans, nReq, storage>>

\* What createPasskey and authenticate of the credential provider reject with,
\* and what normalizing a malformed result throws: objects with a code of the
\* vocabulary, with another code, with a code that is no string or with none,
\* with and without a message, Errors, a string, undefined.
RawFailures ==
    { MkError("object", "native said no", Null, c) :
        c \in PluginCodes \cup {"PLATFORM_ERROR", "E_OTHER", Null} }
    \cup { MkError("object", Null, Null, c) : c \in {"TIMEOUT", "E_OTHER", Null} }
    \cup { MkError("Error", "native said no", Null, c) : c \in {"CANCELLED", "E_OTHER"} }
    \cup { PlainError("Cannot read properties of undefined"),
           MkError("string", "boom", Null, Null),
           MkError("undefined", Null, Null, Null) }

\* The provider may itself be an adapter: its failures are PasskeyErrors then.
ProviderFailures == RawFailures \cup { mapPluginError(e) : e \in RawFailures }

\* asSimpleWebAuthn: startRegistration and startAuthentication when the
\* provider's call, or the normalizing of its result, throws.
asSimpleWebAuthn ==
    /\ last = Quiet
    /\ \E method \in {"startRegistration", "startAuthentication"} :
       \E e \in ProviderFailures :
          last' = [act |-> "adapter", method |-> method, error |-> e,
                   thrown |-> mapPluginError(e)]
    /\ UNCHANGED <<ctl, lsMode, cur, rst, orphans, nReq, storage>>

\* The longest publicKey saved, and the byte values the longer keys are made of.
MaxKeyLen == 3
ByteSample == {0, 1, 63, 64, 127, 128, 254, 255}

RECURSIVE SequencesUpTo(_, _)
SequencesUpTo(S, n) ==
    IF n = 0 THEN {<<>>}
    ELSE LET shorter == SequencesUpTo(S, n - 1)
         IN shorter \cup { Append(s, x) : s \in { q \in shorter : Len(q) = n - 1 }, x \in S }

\* The publicKeys saved: the empty key, every single byte, and the keys of up
\* to MaxKeyLen bytes of ByteSample.
PublicKeys == { <<b>> : b \in 0..255 } \cup SequencesUpTo(ByteSample, MaxKeyLen)

\* save of a credential on the empty persistent store, then get of its id:
\* serializeCredential writes the key as base64, deserializeCredential reads
\* it back.
Codes ==
    /\ last = Quiet
    /\ \E key \in PublicKeys :
         LET credential == Credential("KA", "CA", key, 0)
         IN /\ pstore' = StoreWith(credential)
            /\ last' = [act |-> "codec", credential |-> credential,
                        read |-> ParseCredential(StoreWith(credential).credential["KA"])]
    /\ UNCHANGED <<ctl, lsMode, cur, rst, orphans, nReq, usingMemoryFallback,
                   mstore, pcalls, nCalls, slast>>

FunctionNext ==
    \/ Fetches
    \/ Classifies
    \/ Codes
    \/ asSimpleWebAuthn

FunctionSpec == FunctionInit /\ [][FunctionNext]_vars

---------------------------------------------------------------------------
(* Sanity of the model: one handler slot is enough, because runOperation
   handlers exclude each other *)

SlotMatchesBusy == (cur.op = Null) <=> (busy = Null)

---------------------------------------------------------------------------
(* Claims *)

InFlight ==
    (IF rst.pc # "done" THEN {"restore"} ELSE {})
        \cup (IF cur.op # Null THEN {cur.op} ELSE {})

\* C1: in every reachable state at most one Operation is in flight: while one
\* operation's handler runs (the startup restore included) no other starts.
C1_AtMostOneInFlight == Cardinality(InFlight) <= 1

AnyRequest ==
    \/ RequestCreate
    \/ RequestConnect
    \/ RequestTransfer
    \/ RequestDisconnect

\* C2: a request made while an operation is busy is a no-op: no external call
\* is issued, nothing is queued, and busy, contractId, credentialId, banner,
\* transfer result, balance and log (the whole state) stay as they are.
C2_BusyRequestIsNoOp ==
    [][(busy # Null /\ AnyRequest) =>
          UNCHANGED <<ctl, cur, rst, orphans, env, nReq>>]_vars

\* C2 witness: a transfer was requested while another operation was busy.
C2_Witness == last = Step("turned", "transfer", "-") /\ busy = "connect"

\* C3: whenever a disconnect attempt completes, contractId and credentialId are
\* null, the snapshot is removed and the balance and transfer sub-states are
\* idle, whether the disconnect call succeeded, failed or timed out.
C3_DisconnectAlwaysClears ==
    (last.act = "finished" /\ last.op = "disconnect") =>
        /\ contractId = Null
        /\ credentialId = Null
        /\ snapshot = NoSnapshot
        /\ transferState = IdleTransfer
        /\ balance = IdleBalance

\* C4: every accepted create, connect, transfer or disconnect eventually
\* returns the controller to idle, whether its call succeeds, fails or never
\* settles.
C4_BusyLeadsToIdle == (busy # Null) ~> (busy = Null)

\* C4 witness: an operation whose call never settled has ended, busy is null.
C4_Witness == last.act = "finished" /\ last.how = "timeout" /\ busy = Null

\* C5: the late settlement of a call whose guard has timed out changes none of
\* contractId, credentialId, snapshot, transfer result, error banner and busy.
C5_LateSettlementDiscarded ==
    [][last'.act = "late" =>
          UNCHANGED <<contractId, credentialId, snapshot, transferState,
                      errorBanner, busy>>]_vars

\* C5 witness: a connect that timed out has returned a wallet afterwards.
C5_Witness == last.act = "late" /\ last.op = "connect" /\ last.how = "fulfilled"

Guards ==
    {cur.guard, rst.guard, last.guard} \cup { orphans[i].guard : i \in 1..Len(orphans) }

GuardDeliversOne(g) ==
    /\ (g.outcome = NoOutcome) <=> (g.inner = Pending /\ g.timer # "fired")
    /\ g.timer = "cleared" => g.inner # Pending /\ g.outcome = g.inner
    /\ g.timer = "fired" =>
          g.outcome = Rejected(OperationTimeoutError(g.operation, g.timeoutMs))

CallerOf(g) ==
    \/ g = NoGuard
    \/ g = rst.guard /\ g.operation = "restore" /\ g.timeoutMs = RESTORE_TIMEOUT_MS
    \/ g = cur.guard /\ g.operation = cur.op
    \/ g = last.guard /\ g.operation = last.op
    \/ \E i \in 1..Len(orphans) : g = orphans[i].guard /\ g.operation = orphans[i].op

\* C6: the guard delivers one outcome per call: the call's own value or
\* failure if it settles before the timer, a TimeoutFailure with the label and
\* timeoutMs of the call if the timer fires first; a call that never settles
\* ends in that TimeoutFailure.
C6_GuardOneOutcome ==
    /\ [](\A g \in Guards : GuardDeliversOne(g) /\ CallerOf(g))
    /\ (cur.guard.timer = "armed") ~> (cur.guard.outcome # NoOutcome)
    /\ (rst.guard.timer = "armed") ~> (rst.guard.outcome # NoOutcome)

\* C6 witness: a guard has timed out, and its call settled afterwards.
C6_Witness ==
    last.act = "late" /\ last.guard.timer = "fired" /\ last.guard.inner.kind = "fulfilled"

\* A facade call returns in this step.
FacadeReturns == slast'.n # slast.n

\* C7: the fallback latch is one-way.  It is set by the first persistent call
\* that fails or times out and never cleared; a facade call that starts with
\* the latch set starts no persistent method, leaves the persistent store
\* untouched and is answered by the in-memory store.
C7_LatchOneWay ==
    /\ [][usingMemoryFallback => usingMemoryFallback']_vars
    /\ [][(FacadeReturns /\ slast'.served = "replayed") => usingMemoryFallback']_vars
    /\ [][(nCalls' = nCalls + 1 /\ usingMemoryFallback) =>
            /\ pstore' = pstore
            /\ pcalls' = pcalls
            /\ FacadeReturns
            /\ slast'.served = "memory"
            /\ slast'.outcome = Fulfilled(fallbackOperation(slast'.call, mstore).result)]_vars
    /\ [](\A i \in DOMAIN pcalls : ~pcalls[i].latched)

\* C7 witness: with the latch set and credentials in the persistent store, a
\* getAll was answered by the in-memory store.
C7_Witness ==
    /\ usingMemoryFallback
    /\ slast.latched /\ slast.served = "memory" /\ slast.call.kind = "getAll"
    /\ pstore.index # Absent
    /\ pcalls = <<>>

\* C8: no facade call fails because the persistent store failed or timed out:
\* the same call is replayed on the in-memory store, whose result the caller
\* receives.
C8_FailureReplayedOnMemory ==
    /\ [](slast.outcome.kind # "rejected")
    /\ [][(FacadeReturns /\ slast'.served = "replayed") =>
            LET r == fallbackOperation(slast'.call, mstore)
            IN /\ slast'.outcome = Fulfilled(r.result)
               /\ mstore' = r.m]_vars

\* C8 witness: a save whose persistent method failed or timed out has
\* returned, and the credential is in the in-memory store.
C8_Witness ==
    /\ slast.served = "replayed" /\ slast.call.kind = "save"
    /\ slast.outcome = Fulfilled(RVoid)
    /\ Includes(mstore.credentials, slast.call.credential)

\* C9: startup with no persisted session (silent connect returns empty, no
\* session record, no snapshot) settles in idle: restoring false, busy null,
\* no contract, no credential, no error banner.
C9_NoSessionSettlesIdle ==
    (rst.pc = "done" /\ rst.silent = "empty" /\ rst.snap = "absent"
        /\ sessionRecord = "none" /\ nReq = 0) =>
        /\ restoring = FALSE
        /\ busy = Null
        /\ contractId = Null
        /\ credentialId = Null
        /\ errorBanner = Null

\* C9 witness: the restore has ended after an empty silent connect, without a
\* session record or a snapshot, and no request was made.
C9_Witness ==
    /\ rst.pc = "done" /\ rst.silent = "empty" /\ rst.snap = "absent"
    /\ sessionRecord = "none" /\ nReq = 0 /\ lsMode = "ok"

\* C10: startup with an expired Session Record, when the silent connect yields
\* no session, passes through busy(reauth) and returns to idle.
C10_ExpiredSessionReauth ==
    (sessionRecord = "expired" /\ rst.pc = "done" /\ rst.silent = "empty") =>
        (sawReauth /\ (nReq = 0 => busy = Null))

\* C11: when the startup silent connect fails (its guard rejects or times out)
\* the restore does not end at the failure: it goes on to read the fallback
\* source, as it does after an empty result.
C11_FailedSilentGoesOn ==
    (rst.pc = "done" /\ rst.silent = "failed") => rst.snap # "unread"

\* C12: the startup order is silent restore, session-expiry check, snapshot
\* fallback, idle: the snapshot is read only after the silent restore returned
\* no session, and with an expired Session Record the expiry check
\* (re-authentication) comes before the snapshot is read.
C12_RestoreOrder ==
    /\ rst.snap # "unread" => rst.silent = "empty"
    /\ (rst.snap # "unread" /\ sessionRecord = "expired") => sawReauth

\* C13: in every reachable state with a connected session the stored snapshot
\* carries the same contractId and credentialId as the session, provided the
\* snapshot store accepts writes.
C13_SnapshotMatchesSession ==
    (lsMode = "ok" /\ contractId # Null) =>
        snapshot = [contractId |-> contractId, credentialId |-> credentialId]

\* A session connected by a request after the restore had finished, with the
\* snapshot store working.
C13_Witness ==
    /\ lsMode = "ok" /\ contractId # Null /\ nReq > 0
    /\ last.act = "finished" /\ last.op \in {"create", "connect"}
    /\ last.how = "value" /\ snapshot.contractId = contractId

NoDuplicates(seq) == \A i, j \in DOMAIN seq : seq[i] = seq[j] => i = j

\* The persistent call in flight ends with this step and the facade returns
\* its result.
Completes(kind) ==
    /\ pcalls # <<>> /\ pcalls' = <<>>
    /\ pcalls[1].call.kind = kind
    /\ slast'.n = pcalls[1].n /\ slast'.served = "persistent"

\* C14: the credential index never holds an id twice; a save of an id that
\* is indexed leaves the index as it was, and a save of a new id appends the
\* id to the index, once, at the step that ends the save.
C14_IndexIdempotence ==
    /\ [](NoDuplicates(getCredentialIndex(pstore)))
    /\ [][LET old == getCredentialIndex(pstore)
              new == getCredentialIndex(pstore')
          IN /\ (pcalls # <<>> /\ pcalls[1].call.kind = "save" /\ pcalls' # <<>>)
                    => new = old
             /\ Completes("save") =>
                    LET id == pcalls[1].call.credential.credentialId
                    IN new = IF Includes(old, id) THEN old ELSE Append(old, id)]_vars

\* The second call, a save of KA, has completed on a store whose index had
\* KA before KB.
C14_Witness ==
    /\ slast.n = 2 /\ slast.call.kind = "save" /\ slast.served = "persistent"
    /\ slast.call.credential.credentialId = "KA"
    /\ getCredentialIndex(pstore) = <<"KA", "KB">>

Readable(p, id) == ParseCredential(p.credential[id]) # RNull

\* C15: the step that ends a delete(id) leaves id out of the index and not
\* readable and keeps the other indexed ids; the step that ends a clear
\* leaves the index empty, no credential readable and no session record.
C15_DeleteAndClear ==
    [][LET old == getCredentialIndex(pstore)
           new == getCredentialIndex(pstore')
       IN /\ Completes("delete") =>
                 LET id == pcalls[1].call.credentialId
                 IN /\ new = SelectSeq(old, LAMBDA x : x # id)
                    /\ ~Readable(pstore', id)
          /\ Completes("clear") =>
                 /\ new = <<>>
                 /\ \A id \in CredIds : ~Readable(pstore', id)
                 /\ pstore'.session = Absent]_vars

SameIdentity(before, after) ==
    /\ after # RNull
    /\ after.value.credentialId = before.value.credentialId
    /\ after.value.publicKey = before.value.publicKey

\* C16: no step of an update(id, fields) changes the credentialId or the
\* publicKey of the record of id or touches another record, whatever the
\* fields are; for an id without a readable record the update changes nothing
\* in the store and returns normally.  The same holds on the in-memory store.
C16_UpdateKeepsIdentity ==
    [][/\ (pcalls # <<>> /\ pcalls[1].call.kind = "update") =>
              LET id == pcalls[1].call.credentialId
                  before == ParseCredential(pstore.credential[id])
              IN /\ \A o \in CredIds \ {id} :
                        pstore'.credential[o] = pstore.credential[o]
                 /\ IF before = RNull THEN pstore' = pstore
                    ELSE SameIdentity(before, ParseCredential(pstore'.credential[id]))
                 /\ Completes("update") => slast'.outcome = Fulfilled(RVoid)
       /\ (FacadeReturns /\ slast'.call.kind = "update"
              /\ slast'.served \in {"memory", "replayed"}) =>
              LET id == slast'.call.credentialId
                  before == MapGet(mstore.credentials, id)
              IN /\ IF before = RNull THEN mstore' = mstore
                    ELSE /\ SameIdentity(before, MapGet(mstore'.credentials, id))
                         /\ MapDelete(mstore'.credentials, id)
                                = MapDelete(mstore.credentials, id)
                 /\ slast'.outcome = Fulfilled(RVoid)]_vars

\* An update of KA that names a credentialId and a publicKey among its fields
\* has completed on the persistent store and changed the contractId.
C16_Witness ==
    /\ slast.call.kind = "update" /\ slast.served = "persistent"
    /\ {"credentialId", "publicKey"} \subseteq DOMAIN slast.call.updates
    /\ Readable(pstore, "KA")
    /\ ParseCredential(pstore.credential["KA"]).value.contractId = "CB"

\* The credentials of the ids of the index whose content is readable, in the
\* order of the index.
GetAllExpected(p) ==
    LET kept == SelectSeq(getCredentialIndex(p), LAMBDA id : Readable(p, id))
    IN [i \in 1..Len(kept) |-> ParseCredential(p.credential[kept[i]]).value]

\* C17: a getAll that completes returns, in index order, the credentials of
\* the indexed ids whose content parses and nothing else; it does not fail on
\* an entry that does not parse, and the number of credentials returned is
\* the length of the index less the number of entries that do not parse.
C17_GetAllDropsUnparsable ==
    [][Completes("getAll") =>
           LET index == getCredentialIndex(pstore)
               dropped == { i \in DOMAIN index : ~Readable(pstore, index[i]) }
           IN /\ slast'.outcome = Fulfilled(RList(GetAllExpected(pstore)))
              /\ Len(slast'.outcome.value.value) = Len(index) - Cardinality(dropped)]_vars

\* getAll has returned one credential from an index of two ids, the content
\* of the other not being readable.
C17_Witness ==
    /\ slast.call.kind = "getAll" /\ slast.served = "persistent"
    /\ Len(getCredentialIndex(pstore)) = 2
    /\ pstore.credential["KA"] = Unparsable
    /\ Len(slast.outcome.value.value) = 1

\* The stored content gives no credential: nothing is stored, the text does
\* not parse, or the publicKey does not decode.
NoRecord(v) ==
    \/ v.kind \in {"absent", "text"}
    \/ v.kind = "object" /\ ~fromBase64(v.value.publicKey).ok

\* C18: a get(id) whose Preferences read succeeds on a key that holds nothing
\* or content that does not parse or decode returns null, and so does a
\* getSession on a missing or unparsable session; neither throws, so the
\* facade returns the persistent result and the fallback latch stays off.
C18_CorruptReadsAsAbsent ==
    [][(pcalls # <<>> /\ pcalls' = <<>> /\ slast'.served # "replayed") =>
           LET c == pcalls[1]
           IN /\ (c.call.kind = "get" /\ NoRecord(pstore.credential[c.call.credentialId]))
                    => /\ slast' = Returned(c.n, c.call, FALSE, "persistent",
                                            Fulfilled(RNull))
                       /\ usingMemoryFallback' = FALSE
              /\ (c.call.kind = "getSession" /\ pstore.session.kind \in {"absent", "text"})
                    => /\ slast' = Returned(c.n, c.call, FALSE, "persistent",
                                            Fulfilled(RNull))
                       /\ usingMemoryFallback' = FALSE]_vars

\* get("KA") has returned null from a record whose publicKey is not base64,
\* and the latch is off.
C18_Witness ==
    /\ slast.call.kind = "get" /\ slast.call.credentialId = "KA"
    /\ slast.served = "persistent" /\ slast.outcome = Fulfilled(RNull)
    /\ pstore.credential["KA"].kind = "object"
    /\ ~fromBase64(pstore.credential["KA"].value.publicKey).ok
    /\ ~usingMemoryFallback

\* C19: when a save ends in a failure or is cut short by the storage timeout,
\* the persistent store holds the record of the saved id and its index entry,
\* or neither of the two.
C19_SaveAtomic ==
    [][(FacadeReturns /\ slast'.served = "replayed" /\ slast'.call.kind = "save") =>
           LET id == slast'.call.credential.credentialId
           IN (pstore'.credential[id] # Absent)
                  <=> Includes(getCredentialIndex(pstore'), id)]_vars

\* The messages that contain, in any case, "not found", "missing entry" or
\* "entry does not exist".
NamesMissingEntry ==
    { e.message : e \in
        { x \in MissingEntryErrors \cup BalanceErrors :
            LET message == toLowerCase(Spelling(x.message))
            IN \/ includes(message, <<"n", "o", "t", " ", "f", "o", "u", "n", "d">>)
               \/ includes(message, <<"m", "i", "s", "s", "i", "n", "g", " ", "e", "n", "t", "r", "y">>)
               \/ includes(message, <<"e", "n", "t", "r", "y", " ", "d", "o", "e", "s", " ", "n", "o", "t", " ", "e", "x", "i", "s", "t">>) } }

\* What fetchNativeBalanceXlm makes of the failures with such a message.
MissingEntryAnswers ==
    { fetchNativeBalanceXlm(Rejected(e)) :
        e \in { x \in MissingEntryErrors \cup BalanceErrors :
                  x.message \in NamesMissingEntry } }

\* C20: a balance query that fails with a message containing, in any case,
\* "not found", "missing entry" or "entry does not exist" gives the balance
\* "0", and when its result is not discarded the Balance Result is ready("0")
\* and not in error.
C20_MissingEntryIsZero ==
    /\ MissingEntryAnswers = { [ok |-> TRUE, text |-> "0"] }
    /\ (last.act = "balance" /\ last.how \in NamesMissingEntry)
          => (balance.status = "ready" /\ balance.valueXlm = "0")

\* A balance query of the controller has failed with "MISSING ENTRY" and the
\* Balance Result is ready("0").
C20_Witness ==
    /\ last.act = "balance" /\ last.how = "MISSING ENTRY"
    /\ balance.status = "ready" /\ balance.valueXlm = "0"

\* The wire value of the last fetch has a tag outside the supported set.
UnexpectedTag ==
    /\ last.outcome.kind = "fulfilled"
    /\ last.outcome.value.tag \notin {"scvI128", "scvU128", "scvI64", "scvU64",
                                      "scvI32", "scvU32", "scvVoid"}

\* C21: only an absent entry gives the zero balance: a wire value with a tag
\* outside the supported set ends in error("Unexpected balance value type:
\* <tag>"), and a balance-query timeout or another RPC failure ends in the
\* error state, never in ready("0").
C21_OnlyAbsentIsZero ==
    last.act = "fetch" =>
        /\ UnexpectedTag =>
              balance = Failed("Unexpected balance value type: "
                                  \o last.outcome.value.tag)
        /\ (last.outcome.kind = "rejected" /\ last.outcome.error \in OtherRpcErrors)
              => balance.status = "error"

\* The number of smallest units a balance text denotes: the digits before
\* the point times 10,000,000 plus the digits after it read as seven places,
\* negated after a leading minus sign.
Denoted(text) ==
    LET negative == SubSeq(text, 1, 1) = "-"
        body == IF negative THEN SubSeq(text, 2, Len(text)) ELSE text
        points == { i \in 1..Len(body) : SubSeq(body, i, i) = "." }
        point == IF points = {} THEN Len(body) + 1 ELSE CHOOSE i \in points : TRUE
        places == SubSeq(body, point + 1, Len(body))
        scale == 10 ^ (7 - Len(places))
        magnitude == BigInt(SubSeq(body, 1, point - 1)) * 10000000
                       + (IF places = "" THEN 0 ELSE BigInt(places) * scale)
    IN IF negative THEN -magnitude ELSE magnitude

\* The last fetch was of a wire value with one of these tags.
Fetched(tags) ==
    /\ last.act = "fetch" /\ last.outcome.kind = "fulfilled"
    /\ last.outcome.value.tag \in tags

FetchedUnits ==
    LET value == last.outcome.value
    IN CASE value.tag \in {"scvI128", "scvU128"} -> value.hi * 2 ^ HalfBits + value.lo
         [] value.tag = "scvVoid" -> 0
         [] OTHER -> value.value

\* C23: the balance text of a decoded value n denotes exactly n / 10,000,000:
\* the integer part is written verbatim, a fractional part of at most seven
\* digits follows only when it is nonzero and ends in no zero and no bare
\* point, a negative value carries exactly one leading minus sign
\* (25,000,000 reads "2.5", zero and void read "0", and "-0" is never shown).
C23_FormatExact ==
    Fetched({"scvI128", "scvU128", "scvI64", "scvU64", "scvI32", "scvU32", "scvVoid"}) =>
        LET text == balance.valueXlm
            n == FetchedUnits
            magnitude == IF n < 0 THEN -n ELSE n
            body == IF SubSeq(text, 1, 1) = "-" THEN SubSeq(text, 2, Len(text)) ELSE text
            points == { i \in 1..Len(body) : SubSeq(body, i, i) = "." }
            whole == toString(magnitude \div 10000000)
        IN /\ balance.status = "ready"
           /\ Denoted(text) = n
           /\ (SubSeq(text, 1, 1) = "-") <=> (n < 0)
           /\ SubSeq(body, 1, 1) # "-"
           /\ SubSeq(body, 1, Len(whole)) = whole
           /\ IF magnitude % 10000000 = 0
              THEN body = whole
              ELSE /\ points = {Len(whole) + 1}
                   /\ Len(body) - Len(whole) - 1 \in 1..7
                   /\ SubSeq(body, Len(body), Len(body)) # "0"
           /\ n = 25000000 => text = "2.5"
           /\ n = 0 => text = "0"
           /\ text # "-0"

\* A negative value whose fractional part needs its leading zeros has been
\* fetched and shown.
C23_Witness ==
    /\ Fetched({"scvI64"})
    /\ last.outcome.value.value = -10000001
    /\ balance = Ready("CA", "-1.0000001")


\* C24: whenever no contract is connected the Balance Result is idle; a
\* balance query started before a disconnect and settling after it does not
\* move the balance out of idle.
C24_NoContractIsIdle ==
    contractId = Null => balance = IdleBalance

\* C25: a ready Balance Result holds the answer of a query made for the
\* connected contract: an answer or error for a contract connected before,
\* arriving after the change, is discarded, whichever of refreshBalance and
\* the effect issued the query.
C25_ReadyIsForConnected ==
    balance.status = "ready" => balance.target = contractId


\* The kinds of failure the classifier tells apart, as the thrown value shows
\* them, and the messages of each kind.
IsTimeoutFailure(e) == e.cls = "OperationTimeoutError"
CarriedCode(e) ==
    IF e.cls \in {"string", "undefined"} THEN Null
    ELSE IF e.pluginErrorCode # Null THEN e.pluginErrorCode ELSE e.code
HasProviderCode(e) ==
    CarriedCode(e) \in {"UNKNOWN_ERROR", "CANCELLED", "DOM_ERROR", "UNSUPPORTED_ERROR",
                        "TIMEOUT", "NO_CREDENTIAL", "INVALID_INPUT",
                        "RPID_VALIDATION_ERROR", "PROVIDER_CONFIG_ERROR",
                        "INTERRUPTED", "NO_ACTIVITY"}
IsDomainError(e) ==
    /\ e.cls = "SmartAccountError"
    /\ e.code \in {"INVALID_ADDRESS", "INVALID_AMOUNT", "WALLET_NOT_CONNECTED",
                   "TRANSACTION_TIMEOUT"}
NamesNoDeployment(e) ==
    e.cls = "Error" /\ includes(e.message, "contract not found on-chain")

TimeoutGuidance ==
    [op \in Operation |->
        CASE op = "restore" -> "Session restore timed out. You can continue manually."
          [] op = "reauth" -> "Re-authentication timed out. Try Connect Wallet again."
          [] op = "create" ->
               "Wallet creation timed out. Check passkey prompt visibility and network/relayer status, then retry."
          [] op = "connect" -> "Wallet connection timed out. Try Connect Wallet again."
          [] op = "transfer" ->
               "Transfer timed out before confirmation. Check network status and retry."
          [] OTHER -> "Disconnect timed out. Try again."]
CancelledGuidance == "Passkey request was cancelled or no credential was selected."
TryAgainGuidance == "Passkey request timed out. Try again."
ConfigurationGuidance ==
    "Passkey rpId validation failed. Check app rpId, associated domains, and asset links."
DeviceGuidance == "Passkey provider is not configured on this device."
CapabilityGuidance == "Passkeys are not supported on this device configuration."
DomainGuidance ==
    { "Invalid Stellar address. Use a valid G... or C... address.",
      "Invalid amount. Enter a positive numeric value.",
      "No wallet connected. Connect a wallet before this action.",
      "Transaction confirmation timed out." }
DeploymentGuidance ==
    "Wallet contract is not deployed on-chain yet. Create and deploy a wallet first."
FixedGuidance ==
    { TimeoutGuidance[op] : op \in Operation }
    \cup {CancelledGuidance, TryAgainGuidance, ConfigurationGuidance, DeviceGuidance,
          CapabilityGuidance, DeploymentGuidance}
    \cup DomainGuidance

\* What the classifier may answer to a value that carries a provider code.
ProviderAnswers(operation, e) ==
    {CancelledGuidance, TryAgainGuidance, ConfigurationGuidance, DeviceGuidance,
     CapabilityGuidance, "provider said no", "native said no",
     "Invalid input for " \o operation \o ": provider said no",
     "Invalid input for " \o operation \o ": native said no",
     "Invalid input for " \o operation \o ": Passkey operation failed"}

\* C26: the classifier applies its rules in a fixed order and the first that
\* matches decides: a time-out (its message keyed by the label the failure
\* carries), then a provider code, then a domain-validation error, then an
\* Error that names the missing deployment, then the fallback.
C26_FirstMatchWins ==
    last.act = "classify" =>
        LET e == last.error
        IN IF IsTimeoutFailure(e) THEN errorBanner = TimeoutGuidance[e.operation]
           ELSE IF HasProviderCode(e)
           THEN errorBanner \in ProviderAnswers(last.operation, e)
           ELSE IF IsDomainError(e) THEN errorBanner \in DomainGuidance
           ELSE IF NamesNoDeployment(e) THEN errorBanner = DeploymentGuidance
           ELSE errorBanner \notin FixedGuidance

\* A time-out of create that carries the provider code CANCELLED was
\* classified for a transfer: rule (1) decided, by the label of the failure.
C26_Witness ==
    /\ last.act = "classify"
    /\ last.operation = "transfer"
    /\ IsTimeoutFailure(last.error) /\ HasProviderCode(last.error)
    /\ errorBanner = TimeoutGuidance["create"]


\* C27: a failure that carries a provider code and is no time-out is answered
\* by the fixed "request cancelled" message for cancelled, no-credential and
\* dismissed, "try again" for the provider's time-out, the configuration
\* guidance for an rpId validation failure, the device guidance for a provider
\* that is not configured, the capability guidance for unsupported, and for
\* invalid input by a message that names the operation and echoes the
\* message of the failure.
C27_ProviderCodeMessages ==
    (last.act = "classify" /\ ~IsTimeoutFailure(last.error) /\ HasProviderCode(last.error)) =>
        LET c == CarriedCode(last.error)
        IN /\ c \in {"CANCELLED", "NO_CREDENTIAL", "DOM_ERROR"} =>
                  errorBanner = CancelledGuidance
           /\ c = "TIMEOUT" => errorBanner = TryAgainGuidance
           /\ c = "RPID_VALIDATION_ERROR" => errorBanner = ConfigurationGuidance
           /\ c = "PROVIDER_CONFIG_ERROR" => errorBanner = DeviceGuidance
           /\ c = "UNSUPPORTED_ERROR" => errorBanner = CapabilityGuidance
           /\ (c = "INVALID_INPUT" /\ last.error.message # Null) =>
                  errorBanner = "Invalid input for " \o last.operation \o ": "
                                   \o last.error.message

\* An invalid-input failure of the provider was classified for a transfer.
C27_Witness ==
    /\ last.act = "classify"
    /\ last.operation = "transfer"
    /\ last.error = MkError("PasskeyError", "provider said no", "INVALID_INPUT", Null)
    /\ errorBanner = "Invalid input for transfer: provider said no"


\* The provider's vocabulary of codes as the specification lists it.
Vocabulary ==
    {"UNKNOWN_ERROR", "CANCELLED", "PLATFORM_ERROR", "UNSUPPORTED_ERROR", "TIMEOUT",
     "NO_CREDENTIAL", "INVALID_INPUT", "RPID_VALIDATION_ERROR",
     "PROVIDER_CONFIG_ERROR", "INTERRUPTED", "NO_ACTIVITY"}

\* C28: every code of the provider's vocabulary is recognized both by the
\* error mapper and by the classifier: a failure carrying one is classified
\* by the provider-code rule, and the mapper keeps the code.
C28_VocabularyRecognized ==
    (last.act = "classify" /\ ~IsTimeoutFailure(last.error)) =>
        /\ CarriedCode(last.error) \in Vocabulary =>
              /\ last.pluginErrorCode = CarriedCode(last.error)
              /\ errorBanner \in ProviderAnswers(last.operation, last.error)
        /\ last.error.code \in Vocabulary =>
              last.mapped.pluginErrorCode = last.error.code

\* C29: the classifier is total and falls back on the raw message: a value
\* that matches none of the first four rules is answered by its own message
\* when it has one (an Error, an object with a string message, a string) and
\* by "Unknown error" only when it has none.
C29_FallbackIsRawMessage ==
    (last.act = "classify" /\ ~IsTimeoutFailure(last.error)
        /\ ~HasProviderCode(last.error) /\ ~IsDomainError(last.error)
        /\ ~NamesNoDeployment(last.error)) =>
        errorBanner = IF last.error.message # Null THEN last.error.message
                      ELSE "Unknown error"


\* C30: every create, connect, transfer and disconnect follows the template:
\* when its external call is issued busy is the operation and the banner of
\* an earlier failure is cleared; when busy is cleared after the handler
\* failed, the banner holds the classification of the failure and the log
\* has an error entry tagged with the operation; when the handler succeeded
\* the banner is empty.
C30_OperationTemplate ==
    [][/\ (cur.op = Null /\ cur'.op \in RunOps) =>
              (busy' = cur'.op /\ errorBanner' = Null)
       /\ (last'.act = "finished" /\ last'.op \in RunOps) =>
              /\ busy' = Null
              /\ IF last'.thrown = NoError THEN errorBanner' = Null
                 ELSE /\ errorBanner' = normalizeErrorMessage(last'.op, last'.thrown)
                      /\ \E i \in 1..Len(logs') :
                            /\ logs'[i].tag = last'.op
                            /\ logs'[i].type = "error"
                            /\ logs'[i].message = errorBanner']_vars


\* C31: nothing is retried automatically: the external call of an operation
\* is issued only by the step that accepts a user's request, once, and the
\* step that ends an operation, failed and timed out ones included, issues
\* no call.
C31_NoAutomaticRetry ==
    [][/\ (cur' # cur /\ cur'.op # Null
             /\ cur'.guard = withOperationTimeout(cur'.op, cur'.guard.timeoutMs)) =>
              /\ cur.op = Null /\ busy = Null
              /\ AnyRequest
              /\ nReq' = nReq + 1
       /\ (last'.act = "finished" /\ last'.op \in RunOps) => cur' = NoCall]_vars

\* A transfer has timed out and ended: no call is awaited, the timed-out
\* call is still running.
C31_Witness ==
    /\ last.act = "finished" /\ last.op = "transfer" /\ last.how = "timeout"
    /\ cur = NoCall
    /\ Len(orphans) > 0


\* C32: the codec round-trips: for every byte sequence, the empty one and
\* every byte value included, decoding the encoded sequence gives it back, so
\* the credential read back from the persistent store has the publicKey that
\* was saved.
C32_CodecRoundTrip ==
    last.act = "codec" =>
        /\ last.read = RCredential(last.credential)
        /\ pstore.credential["KA"].value.publicKey = toBase64(last.credential.publicKey)
        /\ fromBase64(pstore.credential["KA"].value.publicKey)
              = [ok |-> TRUE, bytes |-> last.credential.publicKey]

\* A key of two bytes, whose base64 text ends in padding, was saved and read.
C32_Witness ==
    /\ last.act = "codec"
    /\ last.credential.publicKey = <<255, 0>>
    /\ pstore.credential["KA"].value.publicKey = <<63, 48, 0, Pad>>
    /\ last.read.type = "credential"


\* C33: input validation fails an operation before any external call: a
\* create with a blank name and a transfer with an invalid recipient or
\* amount end with an error banner, no call of the kit issued, and contractId,
\* credentialId, snapshot and transfer result as they were; the transfer
\* that is issued carries a valid recipient and amount.
C33_ValidationBeforeCall ==
    [][/\ (last'.act = "finished" /\ last'.how = "invalid") =>
              /\ cur = NoCall /\ cur' = NoCall
              /\ orphans' = orphans
              /\ busy' = Null
              /\ errorBanner' \in
                    {"Enter a username before creating a wallet.",
                     "Invalid Stellar address. Use a valid G... or C... address.",
                     "Invalid amount. Enter a positive numeric value."}
              /\ UNCHANGED <<contractId, credentialId, snapshot, transferState>>
       /\ (cur' # cur /\ cur'.op = "transfer") =>
              (cur'.ctx.recipient = "GDEST" /\ cur'.ctx.amount > 0)]_vars

\* A transfer to an invalid recipient has ended while wallet CA is connected.
C33_Witness ==
    /\ last.act = "finished" /\ last.op = "transfer" /\ last.how = "invalid"
    /\ last.thrown.code = "INVALID_ADDRESS"
    /\ contractId = "CA"
    /\ errorBanner = "Invalid Stellar address. Use a valid G... or C... address."


---------------------------------------------------------------------------
(* The restore effect of the revision of App kept beside the storage adapter:
   it reads the Session Record from a CapacitorStorageAdapter of its own,
   tries a silent connect and, when the record had expired, asks for the
   passkey again.  That revision keeps no snapshot and no balance. *)

LiveSessions == { [s EXCEPT !.expired = FALSE] : s \in Sessions }

\* restore() up to its first await: restoring is set, getSession is awaited
\* with no guard around it.
ReauthInit ==
    /\ contractId = Null
    /\ credentialId = Null
    /\ busy = Null
    /\ restoring = TRUE
    /\ errorBanner = Null
    /\ logs = <<>>
    /\ transferState = IdleTransfer
    /\ balance = IdleBalance
    /\ lsMode = "ok"
    /\ snapshot = NoSnapshot
    /\ StorageStart
    /\ pstore \in {EmptyStore}
                  \cup { [EmptyStore EXCEPT !.session = JsonObject(s)] :
                            s \in Sessions \cup LiveSessions }
    /\ cur = NoCall
    /\ rst = [pc |-> "session", cancelled |-> FALSE, hadExpiredSession |-> FALSE,
              guard |-> NoGuard]
    /\ orphans = <<>>
    /\ balQ = [k \in BalanceKinds |-> 0]
    /\ nReq = 0
    /\ sawReauth = FALSE
    /\ last = Quiet

\* The clean-up of the effect: the run is cancelled.
restoreCleanup ==
    /\ ~rst.cancelled
    /\ rst.guard.outcome = NoOutcome
    /\ rst' = [rst EXCEPT !.cancelled = TRUE]
    /\ last' = Quiet
    /\ UNCHANGED <<ctl, cur, orphans, env, nReq>>

\* The catch and the finally of restore().
restoreFails(s, cancelled, e) == RestoreEnd(RestoreCatch(s, cancelled, e), cancelled)

\* storage.getSession() settles: with the record, or with the failure of the
\* Preferences call.  The silent connect starts under the restore time-out.
restoreReadsSession ==
    /\ rst.pc = "session"
    /\ \E res \in {Fulfilled(ParseSession(pstore.session))}
                  \cup { Rejected(e) : e \in CallErrors } :
          IF res.kind = "rejected"
          THEN /\ Assign(restoreFails(St, rst.cancelled, res.error))
               /\ rst' = [rst EXCEPT !.pc = "done"]
               /\ last' = Step("finished", "restore", "failure")
          ELSE /\ rst' = [rst EXCEPT
                            !.pc = "silent",
                            !.hadExpiredSession = res.value.type = "session"
                                                  /\ res.value.value.expired,
                            !.guard = withOperationTimeout("restore", RESTORE_TIMEOUT_MS)]
               /\ last' = Quiet
               /\ UNCHANGED ctl
    /\ UNCHANGED <<cur, orphans, env, nReq>>

\* The connect call a guard of restore() waits for settles.
restoreGuardSettles ==
    /\ rst.pc \in {"silent", "reauth"}
    /\ rst.guard.outcome = NoOutcome
    /\ rst.guard.inner = Pending
    /\ \E res \in SettlementsOf(rst.guard.operation) :
           rst' = [rst EXCEPT !.guard = GuardSettle(@, res)]
    /\ last' = Quiet
    /\ UNCHANGED <<ctl, cur, orphans, env, nReq>>

\* The timer of a guard of restore() fires.
restoreGuardTimesOut ==
    /\ rst.pc \in {"silent", "reauth"}
    /\ rst.guard.outcome = NoOutcome
    /\ rst.guard.timer = "armed"
    /\ rst' = [rst EXCEPT !.guard = GuardTimeout(@)]
    /\ last' = Quiet
    /\ UNCHANGED <<ctl, cur, orphans, env, nReq>>

\* restore() after the silent connect.
restoreAfterSilent ==
    /\ rst.pc = "silent"
    /\ rst.guard.outcome # NoOutcome
    /\ LET o == rst.guard.outcome
           reauth == o.kind = "fulfilled" /\ ~rst.cancelled /\ o.value = NoWallet
                     /\ rst.hadExpiredSession
           s == IF o.kind = "rejected" THEN restoreFails(St, rst.cancelled, o.error)
                ELSE IF rst.cancelled THEN St
                ELSE IF o.value # NoWallet
                THEN RestoreEnd(pushLog([St EXCEPT !.contractId = o.value.contractId,
                                                   !.credentialId = o.value.credentialId],
                                        "-", "Restored previous wallet session.",
                                        "success"), FALSE)
                ELSE IF rst.hadExpiredSession
                THEN setBusy(pushLog(St, "-",
                        "Previous session expired. Requesting interactive passkey authentication.",
                        "info"), "reauth")
                ELSE RestoreEnd(pushLog(St, "-",
                        "No previous session found. Connect or create a wallet.",
                        "info"), FALSE)
       IN /\ Assign(s)
          /\ rst' = IF reauth
                    THEN [rst EXCEPT !.pc = "reauth",
                                     !.guard = withOperationTimeout("reauth",
                                                                    REAUTH_TIMEOUT_MS)]
                    ELSE [rst EXCEPT !.pc = "done", !.guard = NoGuard]
          /\ last' = IF reauth THEN Quiet
                     ELSE Step("finished", "restore", How(rst.guard))
    /\ UNCHANGED <<cur, orphans, env, nReq>>

\* restore() after the interactive connect: the result is applied, busy is
\* cleared by the inner finally, a failure goes to the outer catch.
restoreAfterReauth ==
    /\ rst.pc = "reauth"
    /\ rst.guard.outcome # NoOutcome
    /\ LET o == rst.guard.outcome
           s1 == IF o.kind = "rejected" THEN St
                 ELSE IF o.value # NoWallet
                 THEN pushLog([St EXCEPT !.contractId = o.value.contractId,
                                         !.credentialId = o.value.credentialId],
                              "-", "Reconnected after session expiry", "success")
                 ELSE pushLog(St, "-", "No wallet selected after session expiry.",
                              "error")
           s2 == IF rst.cancelled THEN s1 ELSE setBusy(s1, Null)
           s3 == IF o.kind = "rejected" THEN restoreFails(s2, rst.cancelled, o.error)
                 ELSE RestoreEnd(s2, rst.cancelled)
       IN /\ Assign(s3)
          /\ rst' = [rst EXCEPT !.pc = "done", !.guard = NoGuard]
          /\ last' = Step("finished", "reauth", How(rst.guard))
    /\ UNCHANGED <<cur, orphans, env, nReq>>

ReauthNext ==
    \/ restoreCleanup
    \/ restoreReadsSession
    \/ restoreGuardSettles
    \/ restoreGuardTimesOut
    \/ restoreAfterSilent
    \/ restoreAfterReauth

ReauthSpec == ReauthInit /\ [][ReauthNext]_vars

\* The timers fire and the code after an await runs; nothing makes a call
\* or the read of the Session Record settle.
ReauthLoop == restoreGuardTimesOut \/ restoreAfterSilent \/ restoreAfterReauth

LiveReauthSpec == ReauthSpec /\ WF_vars(ReauthLoop)

\* C34: once a run of the startup restore is cancelled, no later step of it
\* changes contractId, credentialId, the snapshot, the error banner, busy or
\* restoring, whichever of its calls settles afterwards.
C34_CancelledRestoreIsInert ==
    [][rst.cancelled =>
          UNCHANGED <<contractId, credentialId, snapshot, errorBanner, busy,
                      restoring>>]_vars

\* C35: a run of the startup restore that is not cancelled ends: restoring
\* becomes false, whether or not the read of the Session Record, the silent
\* connect or the reauthentication ever settles.
C35_RestoreTerminates == <>(rst.cancelled \/ ~restoring)


\* C36: whatever the provider's createPasskey or authenticate fails with, the
\* adapter throws a PasskeyError whose pluginErrorCode is a code of the
\* vocabulary, UNKNOWN_ERROR when the failure carries no code or another one;
\* a failure that is a PasskeyError already is thrown as it is, and mapping
\* the thrown error again changes nothing.
C36_AdapterThrowsPasskeyError ==
    last.act = "adapter" =>
        /\ last.thrown.cls = "PasskeyError"
        /\ last.thrown.pluginErrorCode \in PluginCodes
        /\ last.thrown.name = ERROR_NAME_MAP[last.thrown.pluginErrorCode]
        /\ last.error.cls # "PasskeyError" =>
              /\ last.error.code \in PluginCodes =>
                    last.thrown.pluginErrorCode = last.error.code
              /\ last.error.code \notin PluginCodes =>
                    last.thrown.pluginErrorCode = "UNKNOWN_ERROR"
        /\ last.error.cls = "PasskeyError" => last.thrown = last.error
        /\ mapPluginError(last.thrown) = last.thrown

C36_Witness ==
    /\ last.act = "adapter"
    /\ last.method = "startAuthentication"
    /\ last.error = MkError("object", "native said no", Null, "E_OTHER")
    /\ last.thrown = PasskeyError("UnknownError", "native said no", "UNKNOWN_ERROR")


---------------------------------------------------------------------------
(* save and delete of the persistent adapter called without awaiting the call
   before: the Preferences calls of the methods under way interleave, none of
   them fails and no storage timeout fires. *)

MaxInterleaved == 3

SubjectOf(call) ==
    IF call.kind = "save" THEN call.credential.credentialId ELSE call.credentialId

\* A save or a delete starts, for an id no call under way is about.
InterleavedCall(call) ==
    /\ nCalls < MaxInterleaved
    /\ call.kind \in {"save", "delete"}
    /\ \A i \in DOMAIN pcalls : SubjectOf(pcalls[i].call) # SubjectOf(call)
    /\ nCalls' = nCalls + 1
    /\ pcalls' = Append(pcalls, persistentOperation(call, nCalls + 1, FALSE))
    /\ UNCHANGED <<usingMemoryFallback, pstore, mstore, slast, ctl, app>>

InterleavedNext ==
    \/ \E call \in StorageCalls : InterleavedCall(call)
    \/ \E i \in DOMAIN pcalls : PersistentSucceeds(i)

InterleavedSpec == StorageInit /\ [][InterleavedNext]_vars

\* C37: when concurrent saves of distinct ids, or a save and a delete of
\* another id, have all completed, the index holds every id whose record is
\* stored: no save's index update is lost.
C37_NoLostIndexUpdate ==
    pcalls = <<>> =>
        \A id \in CredIds :
            pstore.credential[id].kind = "object" =>
                Includes(getCredentialIndex(pstore), id)


\* What a read through the facade must show of the credential c saved before.
ShowsCredential(read, c, result) ==
    CASE read.kind = "get" /\ read.credentialId = c.credentialId ->
             result = RCredential(c)
      [] read.kind = "getAll" ->
             result.type = "list" /\ Includes(result.value, c)
      [] read.kind = "getByContract" /\ read.contractId = c.contractId ->
             result.type = "list" /\ Includes(result.value, c)
      [] OTHER -> TRUE

\* The facade call that returns in this step was made right after the call
\* that returned last, and that one had succeeded.
ReadsAfterWrite ==
    /\ slast'.n = slast.n + 1
    /\ slast.outcome.kind = "fulfilled"
    /\ slast'.outcome.kind = "fulfilled"

\* C38: a read through the Storage Facade returns what the write before it
\* saved: get, getAll and getByContract the credential of a completed save,
\* getSession the session of a completed saveSession, also when the fallback
\* latch is set between the write and the read.
C38_ReadYourWrites ==
    [][ReadsAfterWrite =>
          /\ slast.call.kind = "save" =>
                ShowsCredential(slast'.call, slast.call.credential,
                                slast'.outcome.value)
          /\ (slast.call.kind = "saveSession" /\ slast'.call.kind = "getSession") =>
                slast'.outcome.value = RSession(slast.call.session)]_vars


---------------------------------------------------------------------------
(* The controller after a transfer that timed out: the restore has brought
   wallet CA back and is over, the balance is shown, runOperation has put the
   time-out in the banner and cleared busy, and the transfer call, which
   nothing cancels, is still under way.  Requests are counted from here. *)

TransferTimedOut == OperationTimeoutError("transfer", TRANSFER_TIMEOUT_MS)

AfterTimedOutTransfer ==
    /\ contractId = "CA"
    /\ credentialId = "KA"
    /\ busy = Null
    /\ restoring = FALSE
    /\ errorBanner = normalizeErrorMessage("transfer", TransferTimedOut)
    /\ logs = <<[tag |-> "transfer",
                 message |-> normalizeErrorMessage("transfer", TransferTimedOut),
                 type |-> "error"],
                [tag |-> "-", message |-> "Restored previous wallet session.",
                 type |-> "success"]>>
    /\ transferState = IdleTransfer
    /\ balance = Ready("CA", "2.5")
    /\ lsMode = "ok"
    /\ snapshot = [contractId |-> "CA", credentialId |-> "KA"]
    /\ StorageStart
    /\ pstore = EmptyStore
    /\ cur = NoCall
    /\ rst = [pc |-> "done", cancelled |-> FALSE, silent |-> "wallet",
              snap |-> "unread", guard |-> NoGuard]
    /\ orphans = <<[op |-> "transfer",
                    guard |-> GuardTimeout(withOperationTimeout("transfer",
                                                                TRANSFER_TIMEOUT_MS)),
                    ctx |-> [amount |-> 1, recipient |-> "GDEST", contractId |-> "CA"],
                    pc |-> "-"]>>
    /\ balQ = [k \in BalanceKinds |-> 0]
    /\ sawReauth = FALSE

RetryInit ==
    /\ AfterTimedOutTransfer
    /\ nReq = 0
    /\ last = Quiet

RetryNext ==
    \/ RequestCreate
    \/ RequestConnect
    \/ RequestTransfer
    \/ RequestDisconnect
    \/ CallSettles
    \/ CallTimesOut
    \/ Continue
    \/ LateSettle
    \/ BalanceSettles

RetrySpec == RetryInit /\ [][RetryNext]_vars

\* C39: the controller starts the external call of an operation only when no
\* call of an earlier operation is still under way: a call left behind by a
\* time-out has settled before the next operation's call is made.
C39_NoOverlappingCalls ==
    [][(cur.op = Null /\ cur'.op # Null) =>
          \A i \in DOMAIN orphans : orphans[i].op \notin RunOps]_vars


---------------------------------------------------------------------------
(* The same calls made on a MemoryStorageAdapter and on a
   CapacitorStorageAdapter over a Preferences store that never fails, both
   empty at the start, each call awaited before the next. *)

MaxSequence == 5

\* A method of the persistent adapter run to its end.
RECURSIVE RunToEnd(_, _)
RunToEnd(c, p) ==
    LET r == PersistentStep(c, p)
    IN IF r.done THEN r ELSE RunToEnd(r.c, r.p)

EquivalenceInit ==
    /\ Mounted
    /\ lsMode = "ok"
    /\ snapshot = NoSnapshot
    /\ pstore = EmptyStore

\* The call is made on both adapters; last keeps what each returned.
BothCalled(call) ==
    /\ nCalls < MaxSequence
    /\ nCalls' = nCalls + 1
    /\ LET m == fallbackOperation(call, mstore)
           p == RunToEnd(persistentOperation(call, nCalls + 1, FALSE), pstore)
       IN /\ mstore' = m.m
          /\ pstore' = p.p
          /\ last' = [act |-> "both", call |-> call, memory |-> m.result,
                      persistent |-> p.result]
    /\ UNCHANGED <<ctl, lsMode, cur, rst, orphans, nReq, usingMemoryFallback, pcalls,
                   slast>>

EquivalenceNext == \E call \in StorageCalls : BothCalled(call)

EquivalenceSpec == EquivalenceInit /\ [][EquivalenceNext]_vars

\* C40: called with the same sequence of save, get, getByContract, getAll,
\* delete, update, clear, saveSession, getSession and clearSession, the
\* in-memory adapter and the persistent adapter return the same result for
\* every call, the lists of getAll and getByContract in the same order.
C40_AdaptersAgree == last.act = "both" => last.memory = last.persistent

C40_Witness ==
    /\ last.act = "both"
    /\ last.call.kind = "getAll"
    /\ last.persistent.type = "list"
    /\ Len(last.persistent.value) = 2
    /\ last.persistent.value[1].credentialId = "KA"
    /\ last.persistent.value[1].meta = 1
    /\ last.persistent.value[2].credentialId = "KB"
    /\ last.memory = last.persistent

=============================================================================
